---- MODULE Spec2Model ----
(***************************************************************************)
(* A model of pysandbox-rs: the sandbox manager (src/src/lib.rs), the two  *)
(* execution engines (src/src/native.rs, src/src/sandboxed.rs) and the     *)
(* policy system (src/src/policy.rs, src/src/config.rs).                   *)
(***************************************************************************)
EXTENDS Integers, Sequences, FiniteSets, TLC

None == "None"
\* no caller holds a guard
NoCaller == 0
\* no value yet
NoOutcome == [ok |-> FALSE, eng |-> -1, val |-> None]

\* ------------------------------------------------------------------------
\* Bounds
\* ------------------------------------------------------------------------
MaxEngines == 3
NumCallers == 2

Callers == 1..NumCallers
\* the (code, inputs, options) triples a caller may pass to execute
CallArgs == {"args1", "args2"}
\* the error kinds an engine's execute may produce: one that validate
\* raises before the child is spawned, one raised after the child has run
ErrKinds == {"SyntaxError", "RuntimeError"}

\* the errors execute produces after cmd.spawn() has started the child that
\* runs the user code: the timeout arm and the exited child's
\* classification; SyntaxError comes from validate, before the spawn
AfterSpawn == {"Timeout", "RuntimeError"}

\* the most input files a SandboxConfig lists
MaxInputFiles == 2
\* the most processes the child adds to its process group
MaxGroup == 1

VARIABLES
    engines,    \* PythonSandbox.engines: index -> lock cell of one engine
    calls,      \* the in-flight calls on the manager, one per caller
    engine,     \* which engine's execute is running: "native" or "sandboxed"
    epc,        \* position of that execute call
    input_files,\* SandboxConfig.input_files (their number)
    workspace,  \* the IsolatedWorkspace of the call and its directory
    child,      \* the spawned interpreter process
    group,      \* live processes the child has forked (same process group)
    eresult,    \* what execute returned
    overlay,    \* the EnterprisePolicy
    user_policy,\* the SandboxPolicy handed to EnterprisePolicy::apply
    ppc,        \* how far the policy scenario has got
    applied,    \* result of overlay.apply(user_policy)
    reapplied,  \* result of overlay.apply(q) for applied = Ok(q)
    imported,   \* the import the child attempted and what the hook did
    options,    \* the ExecutionOptions of a run of the generated program
    user_code,  \* the statement the user code of that run consists of
    py,         \* the interpreter running the generated program
    outdir,     \* the entries of the workspace's output/ when export runs
    export,     \* the state of maybe_export_outputs
    builder,    \* a SandboxedExecutionBuilder::execute call and its files
    output,     \* the Output of an exited child and what execute made of it
    envs,       \* a python_env.create call of the worker and the directories
    pm          \* the PolicyManager

mgrVars == <<engines, calls>>
engVars == <<engine, epc, input_files, workspace, child, group, eresult>>
polVars == <<overlay, user_policy, ppc, applied, reapplied, imported>>
pyVars == <<options, user_code, py>>
expVars == <<outdir, export>>
bldVars == <<builder>>
lateVars == <<output, envs, pm>>
tailVars == <<pyVars, expVars, bldVars, lateVars>>
vars == <<engines, calls, engine, epc, input_files, workspace, child, group,
          eresult, overlay, user_policy, ppc, applied, reapplied, imported,
          options, user_code, py, outdir, export, builder, output, envs, pm>>

\* ------------------------------------------------------------------------
\* Sandbox manager (src/src/lib.rs)
\* ------------------------------------------------------------------------

\* PythonSandbox.primary_engine, fixed by PythonSandbox::new
primary_engine == 0

EngineIds == DOMAIN engines
EnginesLen == Cardinality(DOMAIN engines)

\* Arc<RwLock<Box<dyn PythonEngine>>>: the write guard's holder and the
\* callers currently inside the engine's execute
NewEngineCell == [writer |-> NoCaller, running |-> {}]

\* PythonSandbox::new: a manager over n engines
NewSandbox(n) == [i \in 0..(n - 1) |-> NewEngineCell]

\* RwLock::write resolves only when no guard is held
CanWrite_nolock(e) == TRUE
CanWrite(e) == engines[e].writer = NoCaller

\* RwLock::read resolves only when no write guard is held
CanRead(e) == engines[e].writer = NoCaller

\* what an engine's execute may return for given arguments
EngineOutcomes(e, a) ==
    {[ok |-> TRUE, eng |-> e, val |-> a]}
        \cup {[ok |-> FALSE, eng |-> e, val |-> k] : k \in ErrKinds}

\* the `for (idx, engine) in self.engines.iter().enumerate()` loop with its
\* `if idx != self.primary_engine` filter: the next index visited after
\* `after`, or EnginesLen when the loop is over
NextFallback_skipone(after) ==
    LET rest == {j \in EngineIds : j > after + 1 /\ j # primary_engine}
    IN IF rest = {} THEN EnginesLen
       ELSE CHOOSE j \in rest : \A k \in rest : j <= k
NextFallback_nofilter(after) ==
    LET rest == {j \in EngineIds : j > after}
    IN IF rest = {} THEN EnginesLen
       ELSE CHOOSE j \in rest : \A k \in rest : j <= k
NextFallback(after) ==
    LET rest == {j \in EngineIds : j > after /\ j # primary_engine}
    IN IF rest = {} THEN EnginesLen
       ELSE CHOOSE j \in rest : \A k \in rest : j <= k

\* the arguments an engine is invoked with: code, inputs.clone(), &options
PassedArgs(c) == calls[c].args

\* `Err(e)` at the end of the fallback arm: `e` is the binding of the outer
\* match arm (the primary's error); the inner arm's `e` is out of scope
AllFailedError_last(primaryErr, lastErr) == lastErr
AllFailedError(primaryErr, lastErr) == primaryErr

IdleCall == [pc |-> "idle", op |-> None, args |-> None, idx |-> 0,
             e |-> NoOutcome, result |-> NoOutcome, log |-> <<>>]

Enter(e, c) == [engines EXCEPT ![e].writer = c,
                               ![e].running = engines[e].running \cup {c}]

\* history of a call: the engines it invoked, with what, and what came back
LogEntry(e, c) ==
    [eng |-> e, args |-> PassedArgs(c), out |-> "pending", val |-> None]

SetOut(log, out) ==
    [log EXCEPT ![Len(log)].out = IF out.ok THEN "ok" ELSE "err",
                ![Len(log)].val = out.val]

\* the caller invokes PythonSandbox::execute and suspends on primary.write()
Execute(c, a) ==
    /\ calls[c].pc = "idle"
    /\ calls' = [calls EXCEPT ![c].pc = "await_primary", ![c].op = "execute",
                              ![c].args = a]
    /\ UNCHANGED <<engines, engVars, polVars, tailVars>>

\* primary.write().await resolves and the primary's execute is entered
AcquirePrimary(c) ==
    /\ calls[c].pc = "await_primary"
    /\ CanWrite(primary_engine)
    /\ engines' = Enter(primary_engine, c)
    /\ calls' = [calls EXCEPT ![c].pc = "in_primary",
                    ![c].log = Append(calls[c].log, LogEntry(primary_engine, c))]
    /\ UNCHANGED <<engVars, polVars, tailVars>>

\* the primary's execute returns; the write guard is a temporary of the
\* match scrutinee, so it lives until the match ends
PrimaryReturns(c, out) ==
    /\ calls[c].pc = "in_primary"
    /\ out \in EngineOutcomes(primary_engine, calls[c].log[Len(calls[c].log)].args)
    /\ UNCHANGED <<engVars, polVars, tailVars>>
    /\ LET left == [engines EXCEPT ![primary_engine].running = @ \ {c}]
           released == [left EXCEPT ![primary_engine].writer = NoCaller]
           log2 == SetOut(calls[c].log, out)
       IN IF out.ok
          THEN /\ engines' = released
               /\ calls' = [calls EXCEPT ![c].pc = "done", ![c].result = out,
                                         ![c].log = log2]
          ELSE IF EnginesLen > 1
          THEN /\ engines' = left
               /\ calls' = [calls EXCEPT ![c].pc = "await_fallback",
                                         ![c].e = out, ![c].log = log2,
                                         ![c].idx = NextFallback(-1)]
          ELSE /\ engines' = released
               /\ calls' = [calls EXCEPT ![c].pc = "done", ![c].result = out,
                                         ![c].log = log2]

\* engine.write().await resolves for the fallback engine at idx
AcquireFallback(c) ==
    /\ calls[c].pc = "await_fallback"
    /\ CanWrite(calls[c].idx)
    /\ engines' = Enter(calls[c].idx, c)
    /\ calls' = [calls EXCEPT ![c].pc = "in_fallback",
                    ![c].log = Append(calls[c].log, LogEntry(calls[c].idx, c))]
    /\ UNCHANGED <<engVars, polVars, tailVars>>

\* a fallback engine's execute returns
FallbackReturns(c, out) ==
    /\ calls[c].pc = "in_fallback"
    /\ out \in EngineOutcomes(calls[c].idx, calls[c].log[Len(calls[c].log)].args)
    /\ UNCHANGED <<engVars, polVars, tailVars>>
    /\ LET i == calls[c].idx
           left == [engines EXCEPT ![i].running = @ \ {c}, ![i].writer = NoCaller]
           all == [left EXCEPT ![primary_engine].writer = NoCaller]
           log2 == SetOut(calls[c].log, out)
           next == NextFallback(i)
       IN IF out.ok
          THEN /\ engines' = all
               /\ calls' = [calls EXCEPT ![c].pc = "done", ![c].result = out,
                                         ![c].log = log2]
          ELSE IF next < EnginesLen
          THEN /\ engines' = left
               /\ calls' = [calls EXCEPT ![c].pc = "await_fallback",
                                         ![c].idx = next, ![c].log = log2]
          ELSE /\ engines' = all
               /\ calls' = [calls EXCEPT ![c].pc = "done", ![c].log = log2,
                                ![c].idx = next,
                                ![c].result = AllFailedError(calls[c].e, out)]

\* the caller invokes PythonSandbox::capabilities
Capabilities(c) ==
    /\ calls[c].pc = "idle"
    /\ calls' = [calls EXCEPT ![c].pc = "await_read", ![c].op = "capabilities",
                              ![c].idx = 0]
    /\ UNCHANGED <<engines, engVars, polVars, tailVars>>

\* engine.read().await resolves, capabilities() is pushed, the guard drops
CapabilitiesRead(c) ==
    /\ calls[c].pc = "await_read"
    /\ CanRead(calls[c].idx)
    /\ calls' = [calls EXCEPT
                    ![c].log = Append(calls[c].log,
                                      [eng |-> calls[c].idx, args |-> None,
                                       out |-> "caps", val |-> None]),
                    ![c].idx = calls[c].idx + 1,
                    ![c].pc = IF calls[c].idx + 1 < EnginesLen
                              THEN "await_read" ELSE "done"]
    /\ UNCHANGED <<engines, engVars, polVars, tailVars>>

\* ------------------------------------------------------------------------
\* Engines (src/src/native.rs, src/src/sandboxed.rs)
\* ------------------------------------------------------------------------

EngineKinds == {"native", "sandboxed"}

NoWorkspace == [dir |-> "none", cleanup_on_drop |-> TRUE]
NoOutput == [frame |-> "none", success |-> FALSE, deny |-> FALSE,
             memerr |-> FALSE]
NoChild == [state |-> "none", own_group |-> FALSE, out |-> NoOutput]
NoResult == [ok |-> FALSE, kind |-> None]

Ok(k) == [ok |-> TRUE, kind |-> k]
Err(k) == [ok |-> FALSE, kind |-> k]

\* some process started by this run is still alive
RunAlive == child.state = "running" \/ group > 0

\* IsolatedWorkspace::new: the directory exists, cleanup_on_drop is true
NewWorkspace == [dir |-> "exists", cleanup_on_drop |-> TRUE]

\* std::fs::remove_dir_all in Drop: it removes the tree, or fails (the code
\* only logs a warning) when a live process of the run creates entries in
\* the tree while it is being removed
RemoveDirAll(busy) == IF busy THEN {"removed", "exists"} ELSE {"removed"}

\* impl Drop for IsolatedWorkspace: the directory states after the drop
DropWorkspace(ws, busy) ==
    IF ws.dir = "exists" /\ ws.cleanup_on_drop
    THEN {[ws EXCEPT !.dir = d] : d \in RemoveDirAll(busy)}
    ELSE {ws}

\* apply_resource_limits (unix): pre_exec calls setpgid(0, 0) in the native
\* engine; build_sandboxed_command installs no pre_exec hook
SpawnChild(kind) ==
    [state |-> "running", own_group |-> kind = "native", out |-> NoOutput]

\* libc::kill(-pid, SIGKILL): every process of the child's group dies
KillGroup(ch) == [ch EXCEPT !.state = IF @ = "running" THEN "killed" ELSE @]

\* the `Err(_)` arm of the timeout match: the native engine (unix) kills the
\* process group, the sandboxed engine only returns Timeout.
\* Yields <<child, group>> after the arm.
OnTimeout(kind, ch, grp) ==
    IF kind = "native" THEN <<KillGroup(ch), 0>> ELSE <<ch, grp>>

\* dropping the tokio Child (kill_on_drop is never set): the process is left
\* as it is
DropChild(ch) == ch

\* what the child leaves behind when it exits by itself
ChildOutputs ==
    [frame : {"none", "ok", "error"}, success : BOOLEAN,
     deny : BOOLEAN, memerr : BOOLEAN]

\* the `Ok(Ok(output))` arm of each engine
Classify(kind, out) ==
    IF kind = "sandboxed" /\ out.deny THEN Err("SecurityViolation")
    ELSE IF out.frame = "error" THEN Err("RuntimeError")
    ELSE IF out.frame = "ok" THEN Ok("frame")
    ELSE IF ~out.success
         THEN IF out.memerr THEN Err("MemoryLimitExceeded")
              ELSE Err("RuntimeError")
    ELSE Ok("null")

\* execute is called: self.validate(...) spawns the syntax check and awaits
BeginExecute ==
    /\ epc = "start"
    /\ epc' = "validating"
    /\ UNCHANGED <<engine, input_files, workspace, child, group, eresult>>
    /\ UNCHANGED <<mgrVars, polVars, tailVars>>

\* validate fails: `?` returns the error before anything is created
ValidateFails(k) ==
    /\ epc = "validating"
    /\ k \in {"SyntaxError", "IoError"}
    /\ epc' = "returned"
    /\ eresult' = Err(k)
    /\ UNCHANGED <<engine, input_files, workspace, child, group>>
    /\ UNCHANGED <<mgrVars, polVars, tailVars>>

\* validate succeeds; the code up to the next await runs: (sandboxed) the
\* workspace is created and the input files are staged, the command is
\* built and spawned. wsOk, failAt and spawnOk are the file system's and
\* the OS's answers: failAt = 0 when every copy_input succeeds.
ValidateOk(wsOk, failAt, spawnOk) ==
    /\ epc = "validating"
    /\ failAt \in 0..input_files
    /\ IF engine = "sandboxed" /\ ~wsOk
       THEN /\ epc' = "returned"
            /\ eresult' = Err("IoError")
            /\ UNCHANGED <<workspace, child>>
       ELSE LET ws == IF engine = "sandboxed" THEN NewWorkspace ELSE NoWorkspace
            IN IF (engine = "sandboxed" /\ failAt > 0) \/ ~spawnOk
               THEN /\ epc' = "returned"
                    /\ eresult' = Err("IoError")
                    /\ workspace' \in DropWorkspace(ws, FALSE)
                    /\ UNCHANGED child
               ELSE /\ epc' = "wait"
                    /\ workspace' = ws
                    /\ child' = SpawnChild(engine)
                    /\ UNCHANGED eresult
    /\ UNCHANGED <<engine, input_files, group>>
    /\ UNCHANGED <<mgrVars, polVars, tailVars>>

\* the running child forks a process, which inherits its process group
ChildForks ==
    /\ child.state = "running"
    /\ group < MaxGroup
    /\ group' = group + 1
    /\ UNCHANGED <<engine, epc, input_files, workspace, child, eresult>>
    /\ UNCHANGED <<mgrVars, polVars, tailVars>>

\* a forked process ends by itself
GroupMemberExits ==
    /\ group > 0
    /\ group' = group - 1
    /\ UNCHANGED <<engine, epc, input_files, workspace, child, eresult>>
    /\ UNCHANGED <<mgrVars, polVars, tailVars>>

\* the child exits by itself, leaving its output
ChildExits(out) ==
    /\ child.state = "running"
    /\ out \in ChildOutputs
    /\ child' = [child EXCEPT !.state = "exited", !.out = out]
    /\ UNCHANGED <<engine, epc, input_files, workspace, group, eresult>>
    /\ UNCHANGED <<mgrVars, polVars, tailVars>>

\* child.wait_with_output() resolves before the timer: the output is
\* classified, execute returns and the workspace is dropped
WaitReturns ==
    /\ epc = "wait"
    /\ child.state = "exited"
    /\ epc' = "returned"
    /\ eresult' = Classify(engine, child.out)
    /\ workspace' \in DropWorkspace(workspace, RunAlive)
    /\ UNCHANGED <<engine, input_files, child, group>>
    /\ UNCHANGED <<mgrVars, polVars, tailVars>>

\* the timer of tokio::time::timeout(options.timeout, ..) expires first
Timeout ==
    /\ epc = "wait"
    /\ LET after == OnTimeout(engine, child, group)
       IN /\ child' = DropChild(after[1])
          /\ group' = after[2]
          /\ workspace' \in DropWorkspace(workspace,
                                after[1].state = "running" \/ after[2] > 0)
    /\ epc' = "returned"
    /\ eresult' = Err("Timeout")
    /\ UNCHANGED <<engine, input_files>>
    /\ UNCHANGED <<mgrVars, polVars, tailVars>>

\* the caller drops the future of execute at one of its await points
Cancel ==
    /\ epc \in {"validating", "wait"}
    /\ epc' = "dropped"
    /\ child' = DropChild(child)
    /\ workspace' \in DropWorkspace(workspace, RunAlive)
    /\ UNCHANGED <<engine, input_files, group, eresult>>
    /\ UNCHANGED <<mgrVars, polVars, tailVars>>

\* ------------------------------------------------------------------------
\* Policies (src/src/policy.rs)
\* ------------------------------------------------------------------------
\* A module name is the sequence of its dot-separated components.
\* An Option<T> is the set of its values: {} for None, {v} for Some(v).
\* The payloads of NetworkPolicy::AllowList, FilesystemPolicy::ReadOnly and
\* ProcessPolicy::AllowList are never read by the code modelled here.

NetworkPolicy == {"Blocked", "LocalhostOnly", "AllowList", "Unrestricted"}
FilesystemPolicy ==
    {"None", "ReadOnly", "WorkspaceOnly", "ReadAnyWriteWorkspace",
     "Unrestricted"}
ProcessPolicy == {"Blocked", "AllowList", "Unrestricted"}
ExecutionEnvironment == {"Native", "WorkspaceIsolated", "PlatformSandboxed"}

ImportsUnrestricted ==
    [type |-> "Unrestricted", whitelist |-> {}, blacklist |-> {}]
ImportsBlacklist(bl) ==
    [type |-> "Blacklist", whitelist |-> {}, blacklist |-> bl]
ImportsWhitelist(wl) ==
    [type |-> "Whitelist", whitelist |-> wl, blacklist |-> {}]
ImportsWhitelistWithBlacklist(wl, bl) ==
    [type |-> "WhitelistWithBlacklist", whitelist |-> wl, blacklist |-> bl]

\* ImportPolicyType::default_blacklist
default_blacklist ==
    {<<"subprocess">>, <<"multiprocessing">>, <<"os">>, <<"socket">>,
     <<"urllib">>, <<"requests">>, <<"ctypes">>, <<"pty">>, <<"fcntl">>,
     <<"resource">>, <<"shutil">>, <<"tempfile">>, <<"commands">>,
     <<"popen2">>, <<"cgi">>, <<"cgitb">>, <<"webbrowser">>,
     <<"antigravity">>, <<"asyncio", "subprocess">>}

\* ImportPolicyType::data_science_whitelist
data_science_whitelist ==
    {<<"numpy">>, <<"pandas">>, <<"matplotlib">>, <<"scipy">>,
     <<"sklearn">>, <<"seaborn">>, <<"statsmodels">>, <<"plotly">>,
     <<"fitz">>, <<"pymupdf">>, <<"PIL">>, <<"openpyxl">>, <<"xlrd">>,
     <<"docx">>, <<"pptx">>, <<"sys">>, <<"builtins">>, <<"json">>,
     <<"math">>, <<"random">>, <<"datetime">>, <<"collections">>,
     <<"itertools">>, <<"io">>, <<"base64">>, <<"time">>, <<"re">>,
     <<"copy">>, <<"functools">>, <<"operator">>, <<"string">>,
     <<"textwrap">>, <<"decimal">>, <<"fractions">>, <<"numbers">>,
     <<"statistics">>, <<"typing">>, <<"types">>, <<"abc">>,
     <<"dataclasses">>, <<"enum">>, <<"codecs">>, <<"encodings">>,
     <<"unicodedata">>, <<"hashlib">>, <<"array">>, <<"struct">>,
     <<"pickle">>, <<"_io">>, <<"_json">>, <<"_datetime">>,
     <<"_collections">>, <<"_random">>, <<"_bisect">>, <<"_heapq">>,
     <<"_pickle">>, <<"_struct">>, <<"_warnings">>, <<"_weakref">>,
     <<"_abc">>, <<"_thread">>, <<"_functools">>, <<"_operator">>,
     <<"_stat">>, <<"_sre">>, <<"_codecs">>, <<"_signal">>,
     <<"_frozen_importlib">>, <<"_frozen_importlib_external">>, <<"_imp">>,
     <<"warnings">>, <<"weakref">>, <<"contextlib">>, <<"logging">>,
     <<"traceback">>, <<"linecache">>, <<"inspect">>, <<"dis">>, <<"gc">>,
     <<"platform">>, <<"locale">>, <<"zlib">>, <<"gzip">>, <<"bz2">>,
     <<"uuid">>}

ResourceLimitsPolicy(mem, cpu, timeout, out, threads) ==
    [max_memory_mb |-> mem, max_cpu_seconds |-> cpu,
     max_timeout_seconds |-> timeout, max_output_bytes |-> out,
     max_threads |-> threads]

DefaultResources ==
    ResourceLimitsPolicy(2048, 30, 60, 10 * 1024 * 1024, 4)

\* the five subscores of SandboxPolicy::security_level
NetworkScore_three(p) ==
    CASE p.network = "Blocked" -> 3
      [] p.network = "LocalhostOnly" -> 1
      [] p.network = "AllowList" -> 1
      [] p.network = "Unrestricted" -> 0
NetworkScore(p) ==
    CASE p.network = "Blocked" -> 2
      [] p.network = "LocalhostOnly" -> 1
      [] p.network = "AllowList" -> 1
      [] p.network = "Unrestricted" -> 0
FilesystemScore(p) ==
    CASE p.filesystem = "None" -> 2
      [] p.filesystem = "WorkspaceOnly" -> 2
      [] p.filesystem = "ReadOnly" -> 1
      [] p.filesystem = "ReadAnyWriteWorkspace" -> 1
      [] p.filesystem = "Unrestricted" -> 0
ProcessScore(p) ==
    CASE p.process = "Blocked" -> 2
      [] p.process = "AllowList" -> 1
      [] p.process = "Unrestricted" -> 0
ImportsScore(p) ==
    CASE p.imports.type = "Whitelist" -> 2
      [] p.imports.type = "WhitelistWithBlacklist" -> 2
      [] p.imports.type = "Blacklist" -> 1
      [] p.imports.type = "Unrestricted" -> 0
EnvironmentScore(p) ==
    CASE p.environment = "PlatformSandboxed" -> 2
      [] p.environment = "WorkspaceIsolated" -> 1
      [] p.environment = "Native" -> 0

\* `level += ..` on a u8: the sum modulo 2^8 (a build with overflow checks
\* panics instead, where the two differ)
AddU8(a, b) == (a + b) % 256

\* SandboxPolicy::security_level
SecurityLevel(p) ==
    AddU8(AddU8(AddU8(AddU8(AddU8(0, NetworkScore(p)), FilesystemScore(p)),
                      ProcessScore(p)),
                ImportsScore(p)),
          EnvironmentScore(p))

Policy(name, net, fs, proc, imp, res, env, audit) ==
    [name |-> name, network |-> net, filesystem |-> fs, process |-> proc,
     imports |-> imp, resources |-> res, environment |-> env,
     audit_logging |-> audit]

\* SandboxPolicy::yolo
yolo ==
    Policy("YOLO", "Unrestricted", "Unrestricted", "Unrestricted",
           ImportsUnrestricted,
           ResourceLimitsPolicy(8192, 300, 600, 100 * 1024 * 1024, 16),
           "Native", FALSE)

\* SandboxPolicy::balanced
balanced_localhost ==
    Policy("Balanced", "LocalhostOnly", "ReadAnyWriteWorkspace", "Blocked",
           ImportsBlacklist(default_blacklist), DefaultResources,
           "WorkspaceIsolated", FALSE)
balanced ==
    Policy("Balanced", "Blocked", "ReadAnyWriteWorkspace", "Blocked",
           ImportsBlacklist(default_blacklist), DefaultResources,
           "WorkspaceIsolated", FALSE)

\* SandboxPolicy::data_science
data_science ==
    Policy("Data Science", "Blocked", "ReadAnyWriteWorkspace", "Blocked",
           ImportsWhitelist(data_science_whitelist),
           ResourceLimitsPolicy(4096, 60, 120, 50 * 1024 * 1024, 8),
           "WorkspaceIsolated", TRUE)

\* SandboxPolicy::document_processing
document_processing ==
    Policy("Document Processing", "Blocked", "WorkspaceOnly", "Blocked",
           ImportsWhitelist(data_science_whitelist
               \cup {<<"docx">>, <<"pptx">>, <<"pdf">>, <<"reportlab">>}),
           ResourceLimitsPolicy(2048, 30, 60, 100 * 1024 * 1024, 4),
           "WorkspaceIsolated", TRUE)

\* SandboxPolicy::enterprise
enterprise ==
    Policy("Enterprise", "Blocked", "WorkspaceOnly", "Blocked",
           ImportsWhitelist(data_science_whitelist),
           ResourceLimitsPolicy(1024, 15, 30, 10 * 1024 * 1024, 2),
           "PlatformSandboxed", TRUE)

Templates == {yolo, balanced, data_science, document_processing, enterprise}

\* impl Default for EnterprisePolicy (derived): nothing is constrained
DefaultOverlay ==
    [minimum_security_level |-> {}, locked_network |-> {},
     locked_filesystem |-> {}, locked_process |-> {},
     require_audit_logging |-> FALSE, require_platform_sandbox |-> FALSE,
     always_blocked_modules |-> {}, max_allowed_resources |-> {}]

\* EnterprisePolicy::financial_services_example
financial_services_example ==
    [DefaultOverlay EXCEPT
        !.minimum_security_level = {7},
        !.locked_network = {"Blocked"},
        !.locked_process = {"Blocked"},
        !.require_audit_logging = TRUE,
        !.require_platform_sandbox = TRUE,
        !.always_blocked_modules =
            {<<"os">>, <<"subprocess">>, <<"socket">>, <<"urllib">>,
             <<"requests">>, <<"ftplib">>, <<"smtplib">>, <<"telnetlib">>,
             <<"http", "client">>},
        !.max_allowed_resources =
            {ResourceLimitsPolicy(2048, 30, 60, 10 * 1024 * 1024, 4)}]

\* EnterprisePolicy::healthcare_example
healthcare_example ==
    [DefaultOverlay EXCEPT
        !.minimum_security_level = {8},
        !.locked_network = {"Blocked"},
        !.locked_filesystem = {"WorkspaceOnly"},
        !.locked_process = {"Blocked"},
        !.require_audit_logging = TRUE,
        !.require_platform_sandbox = TRUE,
        !.always_blocked_modules =
            {<<"os">>, <<"subprocess">>, <<"socket">>, <<"urllib">>,
             <<"requests">>, <<"ftplib">>, <<"smtplib">>, <<"telnetlib">>,
             <<"http", "client">>, <<"pickle">>},
        !.max_allowed_resources =
            {ResourceLimitsPolicy(1024, 15, 30, 5 * 1024 * 1024, 2)}]

\* Option::unwrap_or: the value of a Some, else the default
OrElse(opt, default) == IF opt = {} THEN default ELSE CHOOSE v \in opt : TRUE

Min(a, b) == IF a <= b THEN a ELSE b

\* the minimum-security check at the head of EnterprisePolicy::apply
BelowMinimum(o, p) ==
    \E min_level \in o.minimum_security_level : SecurityLevel(p) < min_level

\* the always_blocked_modules arm of EnterprisePolicy::apply
BlockModules(o, imp) ==
    LET always == o.always_blocked_modules
    IN IF always = {} THEN imp
       ELSE CASE imp.type = "Unrestricted" -> ImportsBlacklist(always)
              [] imp.type = "Blacklist" ->
                    ImportsBlacklist(imp.blacklist \cup always)
              [] imp.type = "Whitelist" ->
                    ImportsWhitelist({m \in imp.whitelist : m \notin always})
              [] imp.type = "WhitelistWithBlacklist" ->
                    ImportsWhitelistWithBlacklist(
                        {m \in imp.whitelist : m \notin always},
                        imp.blacklist \cup always)

\* the max_allowed_resources arm with max_threads left as the user set it
ClampResources_nothreads(o, res) ==
    IF o.max_allowed_resources = {} THEN res
    ELSE LET max_resources == CHOOSE r \in o.max_allowed_resources : TRUE
         IN [res EXCEPT
               !.max_memory_mb = Min(@, max_resources.max_memory_mb),
               !.max_cpu_seconds = Min(@, max_resources.max_cpu_seconds),
               !.max_timeout_seconds = Min(@, max_resources.max_timeout_seconds),
               !.max_output_bytes = Min(@, max_resources.max_output_bytes)]

\* the max_allowed_resources arm of EnterprisePolicy::apply
ClampResources(o, res) ==
    IF o.max_allowed_resources = {} THEN res
    ELSE LET max_resources == CHOOSE r \in o.max_allowed_resources : TRUE
         IN [max_memory_mb |->
                 Min(res.max_memory_mb, max_resources.max_memory_mb),
             max_cpu_seconds |->
                 Min(res.max_cpu_seconds, max_resources.max_cpu_seconds),
             max_timeout_seconds |->
                 Min(res.max_timeout_seconds, max_resources.max_timeout_seconds),
             max_output_bytes |->
                 Min(res.max_output_bytes, max_resources.max_output_bytes),
             max_threads |->
                 Min(res.max_threads, max_resources.max_threads)]

\* the locks and requirements of EnterprisePolicy::apply, after its check
Tighten(o, p) ==
    [name |-> p.name,
     network |-> OrElse(o.locked_network, p.network),
     filesystem |-> OrElse(o.locked_filesystem, p.filesystem),
     process |-> OrElse(o.locked_process, p.process),
     audit_logging |-> IF o.require_audit_logging THEN TRUE
                       ELSE p.audit_logging,
     environment |-> IF o.require_platform_sandbox THEN "PlatformSandboxed"
                     ELSE p.environment,
     imports |-> BlockModules(o, p.imports),
     resources |-> ClampResources(o, p.resources)]

\* the policy slot of a result that carries none
NoPolicy ==
    Policy("", "none", "none", "none", ImportsUnrestricted, DefaultResources,
           "none", FALSE)

\* EnterprisePolicy::apply: Ok(policy) or Err(message)
Apply_checklast(o, p) ==
    IF BelowMinimum(o, Tighten(o, p))
    THEN [ok |-> FALSE, policy |-> NoPolicy]
    ELSE [ok |-> TRUE, policy |-> Tighten(o, p)]
Apply(o, p) ==
    IF BelowMinimum(o, p)
    THEN [ok |-> FALSE, policy |-> NoPolicy]
    ELSE [ok |-> TRUE, policy |-> Tighten(o, p)]

\* config::ImportPolicy, the form the engines consume
EngineBlacklist(bl) == [kind |-> "Blacklist", whitelist |-> {}, blacklist |-> bl]
EngineWhitelist(wl) == [kind |-> "Whitelist", whitelist |-> wl, blacklist |-> {}]
EngineBoth(wl, bl) == [kind |-> "Both", whitelist |-> wl, blacklist |-> bl]

\* ImportPolicyType::to_import_policy
to_import_policy(imp) ==
    CASE imp.type = "Unrestricted" -> EngineBlacklist({})
      [] imp.type = "Blacklist" -> EngineBlacklist(imp.blacklist)
      [] imp.type = "Whitelist" -> EngineWhitelist(imp.whitelist)
      [] imp.type = "WhitelistWithBlacklist" ->
            EngineBoth(imp.whitelist, imp.blacklist)

\* name.split('.')[0], as the one-component name the sets are searched for
RootModule(name) == <<name[1]>>

\* the generated safe_import (generate_import_control): "ImportError" when
\* it raises, "delegated" when it calls original_import
safe_import(ip, name, level) ==
    LET root_module == RootModule(name)
    IN IF level > 0 THEN "delegated"
       ELSE CASE ip.kind = "Blacklist" ->
                    IF root_module \in ip.blacklist THEN "ImportError"
                    ELSE "delegated"
              [] ip.kind = "Whitelist" ->
                    IF root_module \notin ip.whitelist
                       /\ root_module # <<"builtins">>
                    THEN "ImportError" ELSE "delegated"
              [] ip.kind = "Both" ->
                    IF root_module \in ip.blacklist THEN "ImportError"
                    ELSE IF root_module \notin ip.whitelist
                            /\ root_module # <<"builtins">>
                    THEN "ImportError" ELSE "delegated"

\* ImportPolicy::is_allowed (config.rs), the Rust-side decision
is_allowed(ip, name) ==
    LET root_module == RootModule(name)
    IN CASE ip.kind = "Blacklist" -> root_module \notin ip.blacklist
         [] ip.kind = "Whitelist" -> root_module \in ip.whitelist
         [] ip.kind = "Both" ->
               root_module \in ip.whitelist /\ root_module \notin ip.blacklist

NotApplied == [ok |-> FALSE, policy |-> NoPolicy]
NothingImported == [name |-> <<>>, level |-> 0, outcome |-> "none"]

\* the caller runs overlay.apply(user_policy)
ApplyOverlay ==
    /\ ppc = "composed"
    /\ applied' = Apply(overlay, user_policy)
    /\ ppc' = "applied"
    /\ UNCHANGED <<overlay, user_policy, reapplied, imported>>
    /\ UNCHANGED <<mgrVars, engVars, tailVars>>

\* the caller runs overlay.apply on the policy the first apply returned
ApplyAgain ==
    /\ ppc = "applied"
    /\ applied.ok
    /\ reapplied' = Apply(overlay, applied.policy)
    /\ ppc' = "reapplied"
    /\ UNCHANGED <<overlay, user_policy, applied, imported>>
    /\ UNCHANGED <<mgrVars, engVars, tailVars>>

\* user code run under the effective policy executes an import statement:
\* the hook generated from to_import_policy(policy.imports) is consulted
Import(name, level) ==
    /\ ppc = "applied"
    /\ applied.ok
    /\ imported' = [name |-> name, level |-> level,
                    outcome |-> safe_import(
                        to_import_policy(applied.policy.imports), name, level)]
    /\ ppc' = "imported"
    /\ UNCHANGED <<overlay, user_policy, applied, reapplied>>
    /\ UNCHANGED <<mgrVars, engVars, tailVars>>

\* ------------------------------------------------------------------------
\* The generated program (generate_import_control, generate_network_control
\* and the wrapper of execute, native.rs and sandboxed.rs) and the
\* interpreter that runs it
\* ------------------------------------------------------------------------
\* A string the generated code inspects character by character (a host, an
\* allowlist pattern, a mode of open) is the sequence of its characters.
\* The alphabets hold no quote, backslash or newline, the characters the
\* formatting of the allowlist into a Python literal escapes or breaks on.

\* the longest mode string passed to open
MaxModeLen == 2
\* the longest host string passed to a network entry point
MaxHostLen == 3

\* one statement of the generated program
Stmt(op, name) == [op |-> op, name |-> name]
ImportStmt(name) == Stmt("import", <<name>>)

\* NativePythonEngine::generate_import_control
native_generate_import_control(ip) ==
    IF ip.kind = "Blacklist"
    THEN <<ImportStmt("builtins"), ImportStmt("sys"),
           Stmt("install_hook", <<>>), Stmt("restrict_open", <<>>)>>
    ELSE <<ImportStmt("builtins"), ImportStmt("sys"), ImportStmt("json"),
           ImportStmt("re"), Stmt("install_hook", <<>>)>>

\* SandboxedPythonEngine::generate_import_control
sandboxed_generate_import_control(ip) ==
    IF ip.kind = "Blacklist"
    THEN <<ImportStmt("builtins"), ImportStmt("sys"),
           Stmt("install_hook", <<>>)>>
    ELSE <<ImportStmt("builtins"), ImportStmt("sys"), ImportStmt("json"),
           ImportStmt("re"), Stmt("install_hook", <<>>)>>

\* generate_network_control (the same text in both engines): nothing for
\* None or an empty list
generate_network_control(allowlist) ==
    IF allowlist = {} THEN <<>>
    ELSE IF (CHOOSE l \in allowlist : TRUE) = <<>> THEN <<>>
    ELSE <<Stmt("network_setup", <<>>)>>

\* the text of wrapper_code after the two prologues, NativePythonEngine
native_wrapper ==
    <<ImportStmt("base64"), ImportStmt("json"), ImportStmt("sys"),
      ImportStmt("io"), Stmt("user_code", <<>>), Stmt("print_frame", <<>>),
      Stmt("exit", <<>>)>>

\* the text of wrapper_code after the two prologues, SandboxedPythonEngine
sandboxed_wrapper ==
    <<ImportStmt("json"), ImportStmt("sys"), ImportStmt("os"),
      ImportStmt("base64"), ImportStmt("io"), Stmt("user_code", <<>>),
      Stmt("print_frame", <<>>), Stmt("exit", <<>>)>>

\* wrapper_code of execute: the program handed to the interpreter with -c
wrapper_code(kind, opts) ==
    IF kind = "native"
    THEN native_generate_import_control(opts.import_policy)
         \o generate_network_control(opts.network_allowlist)
         \o native_wrapper
    ELSE sandboxed_generate_import_control(opts.import_policy)
         \o generate_network_control(opts.network_allowlist)
         \o sandboxed_wrapper

\* ExecutionOptions, of which the program depends on these two
ExecutionOptions(ip, allowlist) ==
    [import_policy |-> ip, network_allowlist |-> allowlist]

\* impl Default for ImportPolicy (config.rs)
config_default_blacklist ==
    {<<"subprocess">>, <<"multiprocessing">>, <<"os">>, <<"socket">>,
     <<"urllib">>, <<"requests">>, <<"ctypes">>, <<"pty">>, <<"fcntl">>,
     <<"resource">>, <<"shutil">>, <<"tempfile">>, <<"commands">>,
     <<"popen2">>, <<"cgi">>, <<"cgitb">>, <<"webbrowser">>,
     <<"antigravity">>}

\* ImportPolicy::data_science_whitelist (config.rs)
config_data_science_whitelist ==
    {<<"numpy">>, <<"pandas">>, <<"matplotlib">>, <<"scipy">>,
     <<"sklearn">>, <<"seaborn">>, <<"statsmodels">>, <<"fitz">>,
     <<"pymupdf">>, <<"PIL">>, <<"openpyxl">>, <<"docx">>, <<"pptx">>,
     <<"lxml">>, <<"zipfile">>, <<"xml">>, <<"sys">>, <<"builtins">>,
     <<"_frozen_importlib">>, <<"_frozen_importlib_external">>, <<"_imp">>,
     <<"_sre">>, <<"_codecs">>, <<"codecs">>, <<"_signal">>, <<"json">>,
     <<"math">>, <<"random">>, <<"datetime">>, <<"collections">>,
     <<"itertools">>, <<"io">>, <<"base64">>, <<"time">>, <<"_io">>,
     <<"_json">>, <<"_datetime">>, <<"_collections">>, <<"_random">>,
     <<"_bisect">>, <<"_heapq">>, <<"_pickle">>, <<"_struct">>,
     <<"_warnings">>, <<"_weakref">>, <<"_abc">>, <<"_thread">>,
     <<"_functools">>, <<"_operator">>, <<"_stat">>, <<"array">>,
     <<"binascii">>, <<"copy">>, <<"copyreg">>, <<"encodings">>,
     <<"errno">>, <<"gc">>, <<"genericpath">>, <<"hashlib">>,
     <<"inspect">>, <<"keyword">>, <<"linecache">>, <<"locale">>,
     <<"logging">>, <<"numbers">>, <<"operator">>, <<"pickle">>,
     <<"platform">>, <<"posixpath">>, <<"re">>, <<"reprlib">>,
     <<"select">>, <<"signal">>, <<"site">>, <<"stat">>, <<"string">>,
     <<"struct">>, <<"sysconfig">>, <<"threading">>, <<"token">>,
     <<"tokenize">>, <<"traceback">>, <<"types">>, <<"typing">>,
     <<"warnings">>, <<"weakref">>, <<"abc">>, <<"functools">>,
     <<"contextlib">>, <<"dataclasses">>, <<"decimal">>, <<"enum">>,
     <<"fractions">>, <<"uuid">>}

\* enum SecurityProfile (config.rs)
SecurityProfile == {"Yolo", "Blacklist", "DataScience", "Strict"}

\* SecurityProfile::to_import_policy
SecurityProfile_to_import_policy(profile) ==
    CASE profile = "Yolo" -> EngineBlacklist({})
      [] profile = "Blacklist" -> EngineBlacklist(config_default_blacklist)
      [] profile = "DataScience" ->
            EngineWhitelist(config_data_science_whitelist)
      [] profile = "Strict" -> EngineWhitelist(config_data_science_whitelist)

\* SecurityProfile::restrict_file_writes
restrict_file_writes(profile) == profile # "Yolo"

\* impl Default for ExecutionOptions (engine.rs)
DefaultOptions ==
    ExecutionOptions(EngineBlacklist(config_default_blacklist), {})

\* a Python exception: its type and the name its message quotes
NoError == [exc |-> "none", name |-> <<>>]
Raised(exc, name) == [exc |-> exc, name |-> name]

\* a host argument: None, or a string
NoneHost == [none |-> TRUE, s |-> <<>>]
Host(s) == [none |-> FALSE, s |-> s]

\* the statements user code consists of in this model
NoUserCode ==
    [op |-> "pass", name |-> <<>>, level |-> 0, mode |-> <<>>,
     host |-> NoneHost, via |-> "none", is_tuple |-> TRUE]
UserImport(name, level) ==
    [NoUserCode EXCEPT !.op = "import", !.name = name, !.level = level]
UserOpen(mode) == [NoUserCode EXCEPT !.op = "open", !.mode = mode]
UserConnect(host, via, is_tuple) ==
    [NoUserCode EXCEPT !.op = "connect", !.host = host, !.via = via,
                       !.is_tuple = is_tuple]

\* the import statement: builtins.__import__ is safe_import once the hook
\* is installed, the original import before
py_import(ip, hook, name, level) ==
    IF hook THEN safe_import(ip, name, level) ELSE "delegated"

\* the name the ImportError of safe_import quotes
hook_error(name) == Raised("ImportError", RootModule(name))

\* the generated restricted_open
restricted_open(mode) ==
    IF \E i \in 1..Len(mode) : mode[i] \in {"w", "a", "x"}
    THEN "PermissionError" ELSE "delegated"

\* a call of open: builtins.open is restricted_open once it is replaced
py_open(open, mode) ==
    IF open = "restricted" THEN restricted_open(mode) ELSE "delegated"

Whitespace == {" "}
RECURSIVE LStrip(_, _)
LStrip(s, cs) ==
    IF s # <<>> /\ Head(s) \in cs THEN LStrip(Tail(s), cs) ELSE s
RECURSIVE RStrip(_, _)
RStrip(s, cs) ==
    IF s # <<>> /\ s[Len(s)] \in cs
    THEN RStrip(SubSeq(s, 1, Len(s) - 1), cs) ELSE s
\* str.strip, str.lower and str.rstrip(".")
Strip(s) == RStrip(LStrip(s, Whitespace), Whitespace)
Lower(s) ==
    [i \in 1..Len(s) |->
        CASE s[i] = "A" -> "a" [] s[i] = "B" -> "b" [] OTHER -> s[i]]
StartsWith(s, pre) ==
    Len(s) >= Len(pre) /\ SubSeq(s, 1, Len(pre)) = pre
EndsWith(s, suf) ==
    Len(s) >= Len(suf) /\ SubSeq(s, Len(s) - Len(suf) + 1, Len(s)) = suf

\* the generated _rzn_norm_host
rzn_norm_host(value) ==
    IF value.none THEN <<>> ELSE RStrip(Lower(Strip(value.s)), {"."})

\* one pattern of the loop of _rzn_host_allowed, h already normalised
PatternAdmits_nodot(pattern, h) ==
    LET p == rzn_norm_host(Host(pattern))
    IN /\ p # <<>>
       /\ \/ p = <<"*">>
          \/ /\ p # <<"*">>
             /\ IF StartsWith(p, <<"*", ".">>)
                THEN LET base == SubSeq(p, 3, Len(p))
                     IN h = base \/ EndsWith(h, base)
                ELSE h = p
PatternAdmits(pattern, h) ==
    LET p == rzn_norm_host(Host(pattern))
    IN /\ p # <<>>
       /\ \/ p = <<"*">>
          \/ /\ p # <<"*">>
             /\ IF StartsWith(p, <<"*", ".">>)
                THEN LET base == SubSeq(p, 3, Len(p))
                     IN h = base \/ EndsWith(h, <<".">> \o base)
                ELSE h = p

\* the generated _rzn_host_allowed over _RZN_NETWORK_ALLOWLIST
rzn_host_allowed(list, host) ==
    LET h == rzn_norm_host(host)
    IN IF h = <<>> THEN TRUE
       ELSE \E i \in 1..Len(list) : PatternAdmits(list[i], h)

\* an address: the tuple (host, port), or a value that is no tuple
Address(is_tuple, host) == [is_tuple |-> is_tuple, first |-> host]

\* the generated _rzn_host_from_address
rzn_host_from_address(address) ==
    IF address.is_tuple THEN address.first ELSE NoneHost

\* the three guarded entry points: socket.getaddrinfo(host, ..),
\* socket.create_connection(address, ..), socket.socket.connect(address)
NetworkEntryPoints == {"getaddrinfo", "create_connection", "connect"}
guarded_call(list, via, is_tuple, arg) ==
    LET host == IF via = "getaddrinfo" THEN arg
                ELSE rzn_host_from_address(Address(is_tuple, arg))
    IN IF rzn_host_allowed(list, host) THEN "delegated"
       ELSE "PermissionError"

\* the interpreter before the first statement
NewInterpreter ==
    [pc |-> 1, hook |-> FALSE, open |-> "original", guards |-> FALSE,
     exec_error |-> NoError, user |-> "none", frame |-> "none",
     status |-> "running", stderr |-> NoError]
NoInterpreter == [NewInterpreter EXCEPT !.pc = 0, !.status = "none"]
NoOptions == ExecutionOptions(EngineBlacklist({}), {})

Program == wrapper_code(engine, options)
AtStmt(op) ==
    /\ py.status = "running"
    /\ py.pc \in 1..Len(Program)
    /\ Program[py.pc].op = op

\* what the exited interpreter leaves to wait_with_output
ExitOutput(frame, success) ==
    [frame |-> frame, success |-> success, deny |-> FALSE, memerr |-> FALSE]

\* an exception nothing catches: traceback on stderr, exit status 1
Uncaught(err) ==
    /\ py' = [py EXCEPT !.status = "exit1", !.stderr = err]
    /\ child' = [child EXCEPT !.state = "exited",
                              !.out = ExitOutput(py.frame, FALSE)]

\* an import statement of the prologue or of the wrapper itself
PyImport ==
    /\ AtStmt("import")
    /\ IF py_import(options.import_policy, py.hook, Program[py.pc].name, 0)
          = "ImportError"
       THEN Uncaught(hook_error(Program[py.pc].name))
       ELSE /\ py' = [py EXCEPT !.pc = @ + 1]
            /\ UNCHANGED child
    /\ UNCHANGED <<engine, epc, input_files, workspace, group, eresult>>
    /\ UNCHANGED <<options, user_code>>
    /\ UNCHANGED <<mgrVars, polVars, expVars, bldVars, lateVars>>

\* builtins.__import__ = safe_import
PyInstallHook ==
    /\ AtStmt("install_hook")
    /\ py' = [py EXCEPT !.pc = @ + 1, !.hook = TRUE]
    /\ UNCHANGED <<engVars, options, user_code>>
    /\ UNCHANGED <<mgrVars, polVars, expVars, bldVars, lateVars>>

\* builtins.open = restricted_open
PyRestrictOpen ==
    /\ AtStmt("restrict_open")
    /\ py' = [py EXCEPT !.pc = @ + 1, !.open = "restricted"]
    /\ UNCHANGED <<engVars, options, user_code>>
    /\ UNCHANGED <<mgrVars, polVars, expVars, bldVars, lateVars>>

\* the network prologue: `try: import socket / except Exception: socket =
\* None`, and the three guards when socket is not None
PyNetworkSetup ==
    /\ AtStmt("network_setup")
    /\ py' = [py EXCEPT
                !.pc = @ + 1,
                !.guards = py_import(options.import_policy, py.hook,
                                     <<"socket">>, 0) = "delegated"]
    /\ UNCHANGED <<engVars, options, user_code>>
    /\ UNCHANGED <<mgrVars, polVars, expVars, bldVars, lateVars>>

\* what the user statement does. found and nested are the interpreter's
\* answers to a delegated import: whether the module exists, and the module
\* its body imports in turn (<<>> for none), which goes through the hook too
UserOutcome(found, nested) ==
    LET ip == options.import_policy
    IN CASE user_code.op = "pass" -> <<"done", NoError>>
         [] user_code.op = "import" ->
              IF py_import(ip, py.hook, user_code.name, user_code.level)
                 = "ImportError"
              THEN <<"rejected", hook_error(user_code.name)>>
              ELSE IF ~found
              THEN <<"delegated",
                     Raised("ModuleNotFoundError", user_code.name)>>
              ELSE IF nested # <<>>
                      /\ py_import(ip, py.hook, nested, 0) = "ImportError"
              THEN <<"delegated", hook_error(nested)>>
              ELSE <<"delegated", NoError>>
         [] user_code.op = "open" ->
              IF py_open(py.open, user_code.mode) = "PermissionError"
              THEN <<"rejected", Raised("PermissionError", <<>>)>>
              ELSE <<"delegated", NoError>>
         [] user_code.op = "connect" ->
              IF py_import(ip, py.hook, <<"socket">>, 0) = "ImportError"
              THEN <<"rejected", hook_error(<<"socket">>)>>
              ELSE IF py.guards
                      /\ guarded_call(
                             CHOOSE l \in options.network_allowlist : TRUE,
                             user_code.via, user_code.is_tuple,
                             user_code.host)
                         = "PermissionError"
              THEN <<"rejected", Raised("PermissionError", <<>>)>>
              ELSE <<"delegated", NoError>>

\* the user code, inside `try: .. except Exception as e: _exec_error = ..`
PyUserCode(found, nested) ==
    /\ AtStmt("user_code")
    /\ LET o == UserOutcome(found, nested)
       IN py' = [py EXCEPT !.pc = @ + 1, !.user = o[1], !.exec_error = o[2]]
    /\ UNCHANGED <<engVars, options, user_code>>
    /\ UNCHANGED <<mgrVars, polVars, expVars, bldVars, lateVars>>

\* print("OUTPUT_JSON_START"); print(json.dumps(_output)); print(..END)
PyPrintFrame ==
    /\ AtStmt("print_frame")
    /\ py' = [py EXCEPT !.pc = @ + 1,
                        !.frame = IF py.exec_error = NoError THEN "ok"
                                  ELSE "error"]
    /\ UNCHANGED <<engVars, options, user_code>>
    /\ UNCHANGED <<mgrVars, polVars, expVars, bldVars, lateVars>>

\* `if _exec_error: sys.exit(1)`, or the end of the program
PyExit ==
    /\ AtStmt("exit")
    /\ py' = [py EXCEPT !.pc = @ + 1,
                        !.status = IF py.exec_error = NoError THEN "exit0"
                                   ELSE "exit1"]
    /\ child' = [child EXCEPT
                    !.state = "exited",
                    !.out = ExitOutput(py.frame, py.exec_error = NoError)]
    /\ UNCHANGED <<engine, epc, input_files, workspace, group, eresult>>
    /\ UNCHANGED <<options, user_code>>
    /\ UNCHANGED <<mgrVars, polVars, expVars, bldVars, lateVars>>

\* the text of the error execute returns for the exited program: the
\* "error" field of the frame, or else the captured stderr
ReportedError ==
    IF child.out.frame = "error" THEN py.exec_error ELSE py.stderr

IdleProgram ==
    /\ options = NoOptions
    /\ user_code = NoUserCode
    /\ py = NoInterpreter

\* ------------------------------------------------------------------------
\* The export step (maybe_export_outputs in SandboxedPythonEngine::execute)
\* ------------------------------------------------------------------------
MAX_FILES == 32
MAX_TOTAL_BYTES == 200 * 1024 * 1024

\* the most small regular files output/ holds
MaxSmallFiles == 33
\* the most other entries listed before them
MaxSpecial == 1

\* u64::saturating_add; the sums of this model stay far below u64::MAX
saturating_add(a, b) == a + b

\* one entry read_dir yields for output/ and what the file system answers
\* about it: ok (the entry itself was read), ft_ok (file_type succeeded),
\* kind, utf8 (file_name is valid UTF-8), stat_ok and size (metadata of the
\* source), copy_ok (std::fs::copy succeeds). A file that cannot be
\* stat'ed cannot be copied either.
DirEntry(ok, ft_ok, kind, utf8, stat_ok, copy_ok, size) ==
    [ok |-> ok, ft_ok |-> ft_ok, kind |-> kind, utf8 |-> utf8,
     stat_ok |-> stat_ok, copy_ok |-> copy_ok, size |-> size]
RegularFile(size) == DirEntry(TRUE, TRUE, "file", TRUE, TRUE, TRUE, size)
SmallFile == RegularFile(1)

\* the state of maybe_export_outputs; base, readdir_ok and mkdir_ok are the
\* environment: whether an export base is configured and can be created,
\* whether output/ can be read, whether the export directory can be created
NewExport(base, readdir_ok, mkdir_ok) ==
    [base |-> base, readdir_ok |-> readdir_ok, mkdir_ok |-> mkdir_ok,
     pc |-> "idle", idx |-> 0, exported |-> <<>>, total_bytes |-> 0,
     export_dir |-> FALSE, returned |-> "none"]
NoExport == NewExport("none", TRUE, TRUE)

\* `if exported.len() >= MAX_FILES { break; }`
FilesCapReached_off(n) == n > MAX_FILES
FilesCapReached(n) == n >= MAX_FILES

\* `if total_bytes > MAX_TOTAL_BYTES { .. break; }`
BytesCapExceeded(total) == total > MAX_TOTAL_BYTES

\* the Ok(parsed) arm without an "error" field has been reached: the export
\* runs before `return Ok(parsed)`
ExportBegin ==
    /\ engine = "sandboxed"
    /\ epc = "wait"
    /\ child.state = "exited"
    /\ Classify(engine, child.out) = Ok("frame")
    /\ export.pc = "idle"
    /\ epc' = "exporting"
    /\ IF export.base = "ok" /\ export.readdir_ok
       THEN export' = [export EXCEPT !.pc = "loop", !.idx = 1]
       ELSE export' = [export EXCEPT !.pc = "done", !.returned = "None"]
    /\ UNCHANGED <<engine, input_files, workspace, child, group, eresult>>
    /\ UNCHANGED outdir
    /\ UNCHANGED <<mgrVars, polVars, pyVars, bldVars, lateVars>>

\* one iteration of `for entry in entries`
ExportEntry ==
    /\ export.pc = "loop"
    /\ export.idx \in 1..Len(outdir)
    /\ LET entry == outdir[export.idx]
           skip == [export EXCEPT !.idx = @ + 1]
           stop == [export EXCEPT
                      !.pc = "done",
                      !.returned = IF export.export_dir THEN "Some"
                                   ELSE "None"]
           total == IF entry.stat_ok
                    THEN saturating_add(export.total_bytes, entry.size)
                    ELSE export.total_bytes
       IN export' =
            IF ~entry.ok THEN skip
            ELSE IF FilesCapReached(Len(export.exported)) THEN stop
            ELSE IF ~entry.ft_ok THEN skip
            ELSE IF entry.kind # "file" THEN skip
            ELSE IF ~entry.utf8 THEN skip
            ELSE IF ~export.export_dir /\ ~export.mkdir_ok
            THEN [export EXCEPT !.pc = "done", !.returned = "None"]
            ELSE IF entry.stat_ok /\ BytesCapExceeded(total)
            THEN [export EXCEPT !.pc = "done", !.returned = "Some",
                                !.export_dir = TRUE,
                                !.total_bytes = total]
            ELSE [export EXCEPT
                    !.idx = @ + 1,
                    !.export_dir = TRUE,
                    !.total_bytes = total,
                    !.exported =
                        IF entry.copy_ok
                        THEN Append(@, [entry |-> export.idx,
                                        size_bytes |-> entry.size])
                        ELSE @]
    /\ UNCHANGED <<engVars, outdir>>
    /\ UNCHANGED <<mgrVars, polVars, pyVars, bldVars, lateVars>>

\* the entries are exhausted: `export_dir.map(|dir| (dir, exported))`
ExportLoopEnds ==
    /\ export.pc = "loop"
    /\ export.idx > Len(outdir)
    /\ export' = [export EXCEPT
                    !.pc = "done",
                    !.returned = IF export.export_dir THEN "Some"
                                 ELSE "None"]
    /\ UNCHANGED <<engVars, outdir>>
    /\ UNCHANGED <<mgrVars, polVars, pyVars, bldVars, lateVars>>

\* `return Ok(parsed)`, annotated when the export returned Some; the
\* workspace is dropped
ExportReturns ==
    /\ epc = "exporting"
    /\ export.pc = "done"
    /\ epc' = "returned"
    /\ eresult' = Ok("frame")
    /\ workspace' \in DropWorkspace(workspace, RunAlive)
    /\ UNCHANGED <<engine, input_files, child, group>>
    /\ UNCHANGED <<outdir, export>>
    /\ UNCHANGED <<mgrVars, polVars, pyVars, bldVars, lateVars>>

\* ------------------------------------------------------------------------
\* Builder (src/src/sandboxed.rs, SandboxedExecutionBuilder)
\* ------------------------------------------------------------------------

\* longest input_files / output_files lists explored
MaxBuilderInputs == 1
MaxOutputFiles == 2

\* workspace names a program writes under OUTPUT_DIR, names of staged
\* inputs, and destinations registered with with_output_file
OutputNames == {"a.csv", "b.png"}
InputNames == {"in.csv"}
Destinations == {"d1", "d2"}

\* a workspace directory: path 0 is no directory; input and output are the
\* file names under <path>/input and <path>/output
NoDir == [path |-> 0, dir |-> "none", input |-> {}, output |-> {}]

\* IsolatedWorkspace::new: base.join(a fresh uuid), with empty input/ and
\* output/ subdirectories; `n` is the number of uuids drawn before
IsolatedWorkspace(n) ==
    [path |-> n + 1, dir |-> "exists", input |-> {}, output |-> {}]

\* IsolatedWorkspace::copy_input for every (source, name) of a list whose
\* sources all exist
copy_inputs(ws, files) ==
    [ws EXCEPT !.input = @ \cup {files[i].name : i \in DOMAIN files}]

\* the `?` of copy_input: std::fs::copy fails on a missing source
InputsCopied(files) == \A i \in DOMAIN files : files[i].exists

\* `source.exists()` in IsolatedWorkspace::copy_output
OutputExists(ws, name) == ws.dir = "exists" /\ name \in ws.output

\* IsolatedWorkspace::list_outputs: the entry names of <path>/output
list_outputs(ws) == ws.output

\* impl Drop for IsolatedWorkspace with cleanup_on_drop = true (keep() is
\* not called on these paths; the child has exited): remove_dir_all
DropDir(ws) ==
    IF ws.dir = "exists"
    THEN [ws EXCEPT !.dir = "removed", !.input = {}, !.output = {}]
    ELSE ws

\* Result<SandboxedExecutionResult>
NoBuilderResult == [ok |-> FALSE, kind |-> None, output_files |-> {}]
BuilderOk(files) == [ok |-> TRUE, kind |-> "result", output_files |-> files]
BuilderErr(k) == [ok |-> FALSE, kind |-> k, output_files |-> {}]

\* SandboxedExecutionBuilder::new; `written` records what the child wrote
\* under its OUTPUT_DIR and `copied` the (name, destination) pairs that
\* copy_output copied
NewBuilder ==
    [pc |-> "new", input_files |-> <<>>, output_files |-> <<>>,
     workspace |-> NoDir, engine_workspace |-> NoDir, uuids |-> 0,
     written |-> {}, idx |-> 0, copied |-> {}, result |-> NoBuilderResult]

NoBuilder == [NewBuilder EXCEPT !.pc = "idle"]

\* the builder's function returns Err through a `?`: its workspace drops
BuilderFails(b, k) ==
    [b EXCEPT !.pc = "returned", !.result = BuilderErr(k),
              !.workspace = DropDir(b.workspace)]

\* SandboxedExecutionBuilder::with_input_file
BuilderWithInputFile(exists, name) ==
    /\ builder.pc = "new"
    /\ Len(builder.input_files) < MaxBuilderInputs
    /\ builder' = [builder EXCEPT !.input_files =
                      Append(@, [exists |-> exists, name |-> name])]
    /\ UNCHANGED <<mgrVars, engVars, polVars, pyVars, expVars, lateVars>>

\* SandboxedExecutionBuilder::with_output_file
BuilderWithOutputFile(name, dest) ==
    /\ builder.pc = "new"
    /\ Len(builder.output_files) < MaxOutputFiles
    /\ builder' = [builder EXCEPT !.output_files =
                      Append(@, [name |-> name, dest |-> dest])]
    /\ UNCHANGED <<mgrVars, engVars, polVars, pyVars, expVars, lateVars>>

\* SandboxedExecutionBuilder::execute up to `engine.execute(..)`: the
\* builder's own workspace is created, the inputs are copied into it, and
\* SandboxedPythonEngine::new receives the config (it holds no workspace)
BuilderExecute(python_exists) ==
    /\ builder.pc = "new"
    /\ LET ws == IsolatedWorkspace(builder.uuids)
           b1 == [builder EXCEPT !.workspace = ws, !.uuids = @ + 1]
       IN builder' =
            IF ~InputsCopied(builder.input_files)
            THEN BuilderFails(b1, "IoError")
            ELSE IF ~python_exists
            THEN BuilderFails([b1 EXCEPT !.workspace =
                                  copy_inputs(ws, builder.input_files)],
                              "PythonNotFound")
            ELSE [b1 EXCEPT !.workspace = copy_inputs(ws, builder.input_files),
                            !.pc = "engine_execute"]
    /\ UNCHANGED <<mgrVars, engVars, polVars, pyVars, expVars, lateVars>>

\* SandboxedPythonEngine::execute up to cmd.spawn(): validate, then a
\* workspace of the engine's own under a fresh uuid, the configured inputs
\* copied into it, and the child spawned with SANDBOX_WORKSPACE set to it
BuilderEngineStarts(started) ==
    /\ builder.pc = "engine_execute"
    /\ LET ws == copy_inputs(IsolatedWorkspace(builder.uuids),
                             builder.input_files)
           b1 == [builder EXCEPT !.engine_workspace = ws, !.uuids = @ + 1]
       IN builder' =
            CASE started = "validate_err" ->
                    BuilderFails(builder, "SecurityViolation")
              [] started = "spawn_err" ->
                    BuilderFails([b1 EXCEPT !.engine_workspace = DropDir(ws)],
                                 "IoError")
              [] OTHER -> [b1 EXCEPT !.pc = "child"]
    /\ UNCHANGED <<mgrVars, engVars, polVars, pyVars, expVars, lateVars>>

\* the program writes a file under OUTPUT_DIR, which the wrapper sets to
\* os.path.join(SANDBOX_WORKSPACE, 'output')
BuilderChildWrites(name) ==
    /\ builder.pc = "child"
    /\ name \notin builder.engine_workspace.output
    /\ builder' = [builder EXCEPT !.engine_workspace.output = @ \cup {name},
                                  !.written = @ \cup {name}]
    /\ UNCHANGED <<mgrVars, engVars, polVars, pyVars, expVars, lateVars>>

\* SandboxedPythonEngine::execute returns: its workspace is a local and
\* drops; on Ok the builder goes on to its copy loop, on Err its `?` returns
BuilderEngineReturns(ok, k) ==
    /\ builder.pc = "child"
    /\ LET b1 == [builder EXCEPT
                    !.engine_workspace = DropDir(builder.engine_workspace)]
       IN builder' = IF ok THEN [b1 EXCEPT !.pc = "copy_outputs", !.idx = 1]
                     ELSE BuilderFails(b1, k)
    /\ UNCHANGED <<mgrVars, engVars, polVars, pyVars, expVars, lateVars>>

\* one iteration of `for (name, dest) in &self.output_files`:
\* workspace.copy_output(name, dest)? on the builder's workspace
BuilderCopyOutput(copy_ok) ==
    /\ builder.pc = "copy_outputs"
    /\ builder.idx <= Len(builder.output_files)
    /\ LET f == builder.output_files[builder.idx]
       IN builder' =
            IF OutputExists(builder.workspace, f.name)
            THEN IF copy_ok
                 THEN [builder EXCEPT !.copied = @ \cup {f}, !.idx = @ + 1]
                 ELSE BuilderFails(builder, "IoError")
            ELSE [builder EXCEPT !.idx = @ + 1]
    /\ UNCHANGED <<mgrVars, engVars, polVars, pyVars, expVars, lateVars>>

\* workspace.list_outputs()? and Ok(SandboxedExecutionResult {..}); the
\* builder's workspace drops at the end of the function
BuilderReturns ==
    /\ builder.pc = "copy_outputs"
    /\ builder.idx > Len(builder.output_files)
    /\ builder' = [builder EXCEPT
                     !.pc = "returned",
                     !.result = BuilderOk(list_outputs(builder.workspace)),
                     !.workspace = DropDir(builder.workspace)]
    /\ UNCHANGED <<mgrVars, engVars, polVars, pyVars, expVars, lateVars>>

\* ------------------------------------------------------------------------
\* The exited child's output (the `Ok(Ok(output))` arm of each engine)
\* ------------------------------------------------------------------------

\* longest stdout, in pieces, and longest stderr, in words, explored
MaxPieces == 3
MaxStderrWords == 1

\* the sentinels the wrapper prints around the frame, character by character
OUTPUT_JSON_START ==
    <<"O", "U", "T", "P", "U", "T", "_", "J", "S", "O", "N", "_", "S", "T",
      "A", "R", "T">>
OUTPUT_JSON_END ==
    <<"O", "U", "T", "P", "U", "T", "_", "J", "S", "O", "N", "_", "E", "N",
      "D">>

\* the literal of `start + 17`
START_OFFSET == 17

\* str::find: the byte offset of the first match, or None
MatchesAt(s, pat, i) ==
    /\ i + Len(pat) <= Len(s)
    /\ \A k \in 1..Len(pat) : s[i + k] = pat[k]
find(s, pat) ==
    LET hits == {i \in 0..Len(s) : MatchesAt(s, pat, i)}
    IN IF hits = {} THEN {} ELSE {CHOOSE i \in hits : \A j \in hits : i <= j}

\* str::trim
RustWhitespace == {" ", "\n"}
trim(s) == RStrip(LStrip(s, RustWhitespace), RustWhitespace)

\* JSON texts a child can put on its stdout: objects whose error is null,
\* empty or set, an object whose string holds the end sentinel, an array
JsonErrorNull ==
    <<"{", "\"", "e", "r", "r", "o", "r", "\"", ":", "n", "u", "l", "l",
      "}">>
JsonErrorEmpty ==
    <<"{", "\"", "e", "r", "r", "o", "r", "\"", ":", "\"", "\"", "}">>
JsonErrorSet ==
    <<"{", "\"", "e", "r", "r", "o", "r", "\"", ":", "\"", "E", "\"", "}">>
JsonWithMarker ==
    <<"{", "\"", "s", "t", "d", "o", "u", "t", "\"", ":", "\"", "O", "U",
      "T", "P", "U", "T", "_", "J", "S", "O", "N", "_", "E", "N", "D",
      "\"", "}">>
JsonArray ==
    <<"[", "]">>

\* serde_json::Value: the decoded text, its type, and its "error" member
\* (absent, null, or a string with that content)
Value(text, type, member, str) ==
    [text |-> text, type |-> type, error |-> member, error_str |-> str]

\* serde_json::from_str over the texts the stdout pieces can form: the five
\* above are the only slices of them that are JSON
from_str(s) ==
    CASE s = JsonErrorNull -> {Value(s, "object", "null", <<>>)}
      [] s = JsonErrorEmpty -> {Value(s, "object", "string", <<>>)}
      [] s = JsonErrorSet -> {Value(s, "object", "string", <<"E">>)}
      [] s = JsonWithMarker -> {Value(s, "object", "absent", <<>>)}
      [] s = JsonArray -> {Value(s, "array", "absent", <<>>)}
      [] OTHER -> {}

\* parsed.get("error").and_then(|e| e.as_str())
error_as_str(parsed) ==
    IF parsed.type = "object" /\ parsed.error = "string"
    THEN {parsed.error_str} ELSE {}

\* String::contains over a stderr kept as its words
contains(stderr, word) == \E i \in 1..Len(stderr) : stderr[i] = word

\* what execute makes of the output: a value, an error, or a panic
NoOutcomeYet == [tag |-> "none"]
OkValue(v) == [tag |-> "Ok", val |-> v]
\* Ok(serde_json::Value::Null)
OkNull == OkValue(Value(<<"n", "u", "l", "l">>, "null", "absent", <<>>))
ErrOf(kind, msg) == [tag |-> "Err", kind |-> kind, msg |-> msg]
Panic == [tag |-> "panic"]

\* `&stdout[start + 17..end]`: the slice, or a panic when the range is
\* reversed or leaves the string
SliceFrom(stdout, start, end) ==
    IF start + START_OFFSET > end \/ end > Len(stdout) THEN {}
    ELSE {SubSeq(stdout, start + START_OFFSET + 1, end)}

\* the two nested `if let Some(..) = stdout.find(..)` and the from_str:
\* "panic", or the parsed frame, or none
ExtractFrame(stdout) ==
    LET start == find(stdout, OUTPUT_JSON_START)
        end == find(stdout, OUTPUT_JSON_END)
    IN IF start = {} \/ end = {} THEN [panic |-> FALSE, parsed |-> {}]
       ELSE LET a == CHOOSE i \in start : TRUE
                b == CHOOSE i \in end : TRUE
                json_str == SliceFrom(stdout, a, b)
            IN IF json_str = {} THEN [panic |-> TRUE, parsed |-> {}]
               ELSE [panic |-> FALSE,
                     parsed |-> from_str(trim(CHOOSE s \in json_str : TRUE))]

\* "Fallback: check for errors": no frame was returned
NoFrameFallback(success, stderr) ==
    IF ~success
    THEN IF contains(stderr, "MemoryError")
         THEN ErrOf("MemoryLimitExceeded", <<>>)
         ELSE ErrOf("RuntimeError", stderr)
    ELSE OkNull

\* a parsed frame: its non-empty error string is a RuntimeError
FrameOutcome(parsed) ==
    LET error == error_as_str(parsed)
    IN IF error # {} /\ (CHOOSE e \in error : TRUE) # <<>>
       THEN ErrOf("RuntimeError", CHOOSE e \in error : TRUE)
       ELSE OkValue(parsed)

\* the sandbox-violation check of the sandboxed engine
SandboxViolation_denyonly(stderr) == contains(stderr, "deny")
SandboxViolation(stderr) ==
    contains(stderr, "deny") \/ contains(stderr, "Sandbox")

\* the `Ok(Ok(output))` arm: the outcome, and whether maybe_export_outputs
\* was called on the way
OnOutput(kind, stdout, stderr, success) ==
    IF kind = "sandboxed" /\ SandboxViolation(stderr)
    THEN [outcome |-> ErrOf("SecurityViolation", <<>>), export |-> FALSE]
    ELSE LET frame == ExtractFrame(stdout)
         IN IF frame.panic THEN [outcome |-> Panic, export |-> FALSE]
            ELSE IF frame.parsed = {}
            THEN [outcome |-> NoFrameFallback(success, stderr),
                  export |-> FALSE]
            ELSE LET out == FrameOutcome(CHOOSE v \in frame.parsed : TRUE)
                 IN [outcome |-> out,
                     export |-> kind = "sandboxed" /\ out.tag = "Ok"]

\* the Output of wait_with_output
NewOutput(stdout, stderr, success) ==
    [pc |-> "exited", stdout |-> stdout, stderr |-> stderr,
     success |-> success, outcome |-> NoOutcomeYet, export_called |-> FALSE]

NoOutputParse ==
    [NewOutput(<<>>, <<>>, TRUE) EXCEPT !.pc = "idle"]

\* wait_with_output has resolved before the timeout: the arm runs
OutputArm ==
    /\ output.pc = "exited"
    /\ LET r == OnOutput(engine, output.stdout, output.stderr, output.success)
       IN output' = [output EXCEPT !.pc = "returned", !.outcome = r.outcome,
                                   !.export_called = r.export]
    /\ UNCHANGED <<mgrVars, engVars, polVars, pyVars, expVars, bldVars,
                   envs, pm>>

\* ------------------------------------------------------------------------
\* Managed environments of the worker (src/src/bin/rzn-python-worker.rs)
\* ------------------------------------------------------------------------

\* longest raw alias explored, besides one that is too long
MaxAliasLen == 2

\* the literal of `alias.len() > 64`
ALIAS_MAX_LEN == 64

\* char::is_ascii_alphanumeric
AsciiAlphanumeric ==
    {"a", "b", "c", "d", "e", "f", "g", "h", "i", "j", "k", "l", "m", "n",
     "o", "p", "q", "r", "s", "t", "u", "v", "w", "x", "y", "z", "A", "B",
     "C", "D", "E", "F", "G", "H", "I", "J", "K", "L", "M", "N", "O", "P",
     "Q", "R", "S", "T", "U", "V", "W", "X", "Y", "Z", "0", "1", "2", "3",
     "4", "5", "6", "7", "8", "9"}

\* validate_env_alias: Ok(alias) as {alias}, Err(..) as {}
validate_env_alias(raw) ==
    LET alias == trim(raw)
    IN IF alias = <<>> THEN {}
       ELSE IF Len(alias) > ALIAS_MAX_LEN THEN {}
       ELSE IF ~\A i \in 1..Len(alias) :
                   alias[i] \in AsciiAlphanumeric \cup {"-", "_", "."}
       THEN {}
       ELSE {alias}

\* managed_envs_base_dir: a path, as its components
managed_envs_base_dir == << <<"h">>, <<"e", "n", "v", "s">> >>

\* Path::join with a relative path of one component (an alias that
\* validate_env_alias accepts holds no separator)
managed_env_dir(alias) == Append(managed_envs_base_dir, alias)

\* the directory the operating system reaches through a path: "." stays,
\* ".." goes to the parent (the root is its own parent)
RECURSIVE Resolve(_)
Resolve(path) ==
    IF path = <<>> THEN <<>>
    ELSE LET front == Resolve(SubSeq(path, 1, Len(path) - 1))
             last == path[Len(path)]
         IN IF last = <<".">> THEN front
            ELSE IF last = <<".", ".">>
            THEN IF front = <<>> THEN <<>>
                 ELSE SubSeq(front, 1, Len(front) - 1)
            ELSE Append(front, last)

\* directory p is d or lies below it
IsWithin(p, d) == Len(p) >= Len(d) /\ SubSeq(p, 1, Len(d)) = d

\* Path::exists over the directories of the file system
Exists(dirs, path) == Resolve(path) \in dirs

\* std::fs::create_dir_all
create_dir_all(dirs, path) ==
    dirs \cup {SubSeq(Resolve(path), 1, n) : n \in 0..Len(Resolve(path))}

\* std::fs::remove_dir_all: everything below the directory goes; the final
\* rmdir of the directory itself fails for a path whose last component is
\* "." or ".." (EINVAL, ENOTEMPTY), and remove_dir_all returns that error
RemovedBy(dirs, path) ==
    {p \in dirs : IsWithin(p, Resolve(path))
                      /\ (p = Resolve(path) =>
                             path[Len(path)] \notin {<<".">>, <<".", ".">>})}
remove_dir_all_ok(path) == path[Len(path)] \notin {<<".">>, <<".", ".">>}

\* a python_env.create call: its arguments, the directories that exist,
\* those the call has removed, and its result
NewEnvCall(dirs) ==
    [pc |-> "ready", raw |-> <<>>, recreate |-> FALSE, alias |-> {},
     dirs |-> dirs, removed |-> {}, result |-> "none"]

NoEnv == [NewEnvCall({}) EXCEPT !.pc = "idle"]

\* python_env_create_call up to the venv command: the alias is validated,
\* the base directory created, an existing env directory removed when
\* recreate is set and reported as existing otherwise
EnvCreateBegin(raw, recreate) ==
    /\ envs.pc = "ready"
    /\ LET alias == validate_env_alias(raw)
           e1 == [envs EXCEPT !.raw = raw, !.recreate = recreate,
                              !.alias = alias]
       IN envs' =
            IF alias = {}
            THEN [e1 EXCEPT !.pc = "returned", !.result = "invalid_params"]
            ELSE LET env_dir == managed_env_dir(CHOOSE a \in alias : TRUE)
                     dirs1 == create_dir_all(envs.dirs, managed_envs_base_dir)
                     gone == RemovedBy(dirs1, env_dir)
                 IN IF ~Exists(dirs1, env_dir)
                    THEN [e1 EXCEPT !.pc = "venv", !.dirs = dirs1]
                    ELSE IF ~recreate
                    THEN [e1 EXCEPT !.pc = "returned", !.dirs = dirs1,
                                    !.result = "exists"]
                    ELSE IF remove_dir_all_ok(env_dir)
                    THEN [e1 EXCEPT !.pc = "venv", !.dirs = dirs1 \ gone,
                                    !.removed = gone]
                    ELSE [e1 EXCEPT !.pc = "returned", !.dirs = dirs1 \ gone,
                                    !.removed = gone,
                                    !.result = "remove_failed"]
    /\ UNCHANGED <<mgrVars, engVars, polVars, pyVars, expVars, bldVars,
                   output, pm>>

\* the venv command has run: the env directory exists when it succeeded
EnvCreateVenv(ok) ==
    /\ envs.pc = "venv"
    /\ LET env_dir == managed_env_dir(CHOOSE a \in envs.alias : TRUE)
       IN envs' = IF ok
                  THEN [envs EXCEPT !.pc = "returned", !.result = "created",
                                    !.dirs = create_dir_all(@, env_dir)]
                  ELSE [envs EXCEPT !.pc = "returned", !.result = "failed"]
    /\ UNCHANGED <<mgrVars, engVars, polVars, pyVars, expVars, bldVars,
                   output, pm>>

\* ------------------------------------------------------------------------
\* PolicyManager (policy.rs): the registered templates, the selected
\* template's name and the enterprise overlay
\* ------------------------------------------------------------------------
\* how many names of custom templates the callers use
MaxCustomNames == 1

CustomNamePool == <<"my_policy", "team_policy", "ci_policy">>
CustomNames == {CustomNamePool[i] : i \in 1..MaxCustomNames}

\* PolicyManager::new: five templates, "balanced" selected, no overlay
PolicyManager_new ==
    [enterprise_policy |-> {},
     templates |-> ("yolo" :> yolo) @@ ("balanced" :> balanced)
                   @@ ("data_science" :> data_science)
                   @@ ("document_processing" :> document_processing)
                   @@ ("enterprise" :> enterprise),
     selected_policy |-> "balanced"]

\* PolicyManager::set_enterprise_policy
set_enterprise_policy(m, policy) == [m EXCEPT !.enterprise_policy = {policy}]

\* PolicyManager::load_enterprise_policy: the file is read and parsed;
\* content is the parsed overlay, empty when either step failed
load_enterprise_policy(m, content) ==
    IF content = {}
    THEN [ok |-> FALSE, mgr |-> m]
    ELSE [ok |-> TRUE, mgr |-> [m EXCEPT !.enterprise_policy = content]]

\* PolicyManager::add_template: HashMap::insert replaces an entry of the
\* same name
add_template(m, name, policy) ==
    [m EXCEPT !.templates = (name :> policy) @@ m.templates]

select_policy_unchecked(m, name) ==
    [ok |-> TRUE, mgr |-> [m EXCEPT !.selected_policy = name]]

\* PolicyManager::select_policy
select_policy(m, name) ==
    IF name \in DOMAIN m.templates
    THEN [ok |-> TRUE, mgr |-> [m EXCEPT !.selected_policy = name]]
    ELSE [ok |-> FALSE, mgr |-> m]

\* PolicyManager::get_effective_policy: templates.get(selected_policy),
\* SandboxPolicy::balanced when there is no such entry, then the overlay
get_effective_policy(m) ==
    LET found == IF m.selected_policy \in DOMAIN m.templates
                 THEN {m.templates[m.selected_policy]} ELSE {}
        selected == OrElse(found, balanced)
    IN [fallback |-> found = {},
        result |-> IF m.enterprise_policy = {}
                   THEN [ok |-> TRUE, policy |-> selected]
                   ELSE Apply(CHOOSE o \in m.enterprise_policy : TRUE,
                              selected)]

NoEffective == [fallback |-> FALSE, result |-> NotApplied]
LastOp(op, name, ok) == [op |-> op, name |-> name, ok |-> ok]

\* a manager just constructed, with the record of the last operation on it
NewManager ==
    [pc |-> "ready", mgr |-> PolicyManager_new, before |-> PolicyManager_new,
     last |-> LastOp("new", "", TRUE), effective |-> NoEffective]

\* no manager constructed
NoManager == [pc |-> "idle"]

PMUnchanged ==
    UNCHANGED <<mgrVars, engVars, polVars, pyVars, expVars, bldVars,
                output, envs>>

\* a caller adds or replaces a template
AddTemplate(name, policy) ==
    /\ pm.pc = "ready"
    /\ pm' = [pm EXCEPT !.before = pm.mgr,
                        !.mgr = add_template(pm.mgr, name, policy),
                        !.last = LastOp("add_template", name, TRUE)]
    /\ PMUnchanged

\* a caller selects a template by name
SelectPolicy(name) ==
    /\ pm.pc = "ready"
    /\ LET r == select_policy(pm.mgr, name)
       IN pm' = [pm EXCEPT !.before = pm.mgr, !.mgr = r.mgr,
                           !.last = LastOp("select_policy", name, r.ok)]
    /\ PMUnchanged

\* a caller sets the overlay directly
SetEnterprisePolicy(policy) ==
    /\ pm.pc = "ready"
    /\ pm' = [pm EXCEPT !.before = pm.mgr,
                        !.mgr = set_enterprise_policy(pm.mgr, policy),
                        !.last = LastOp("set_enterprise_policy", "", TRUE)]
    /\ PMUnchanged

\* a caller loads the overlay from a file
LoadEnterprisePolicy(content) ==
    /\ pm.pc = "ready"
    /\ LET r == load_enterprise_policy(pm.mgr, content)
       IN pm' = [pm EXCEPT !.before = pm.mgr, !.mgr = r.mgr,
                           !.last = LastOp("load_enterprise_policy", "", r.ok)]
    /\ PMUnchanged

\* a caller asks for the effective policy
GetEffectivePolicy ==
    /\ pm.pc = "ready"
    /\ pm' = [pm EXCEPT !.before = pm.mgr,
                        !.last = LastOp("get_effective_policy", "", TRUE),
                        !.effective = get_effective_policy(pm.mgr)]
    /\ PMUnchanged

IdlePolicy ==
    /\ overlay = DefaultOverlay
    /\ user_policy = yolo
    /\ ppc = "idle"
    /\ applied = NotApplied
    /\ reapplied = NotApplied
    /\ imported = NothingImported

IdleEngine ==
    /\ engine = "native"
    /\ epc = "idle"
    /\ input_files = 0
    /\ workspace = NoWorkspace
    /\ child = NoChild
    /\ group = 0
    /\ eresult = NoResult

IdleManager ==
    /\ engines = NewSandbox(1)
    /\ calls = [c \in Callers |-> IdleCall]

\* ------------------------------------------------------------------------
\* Idle values of the parts a specification does not exercise
\* ------------------------------------------------------------------------
IdleExport ==
    /\ outdir = <<>>
    /\ export = NoExport

IdleBuilder == builder = NoBuilder

IdleLate ==
    /\ output = NoOutputParse
    /\ envs = NoEnv
    /\ pm = NoManager

IdleTail ==
    /\ IdleProgram
    /\ IdleExport
    /\ IdleBuilder
    /\ IdleLate


InitEngine ==
    /\ engine \in EngineKinds
    /\ epc = "start"
    /\ input_files \in 0..MaxInputFiles
    /\ workspace = NoWorkspace
    /\ child = NoChild
    /\ group = 0
    /\ eresult = NoResult
    /\ IdleManager
    /\ IdlePolicy
    /\ IdleTail

NextEngine ==
    \/ BeginExecute
    \/ \E k \in {"SyntaxError", "IoError"} : ValidateFails(k)
    \/ \E wsOk \in BOOLEAN, failAt \in 0..MaxInputFiles, spawnOk \in BOOLEAN :
          ValidateOk(wsOk, failAt, spawnOk)
    \/ ChildForks
    \/ GroupMemberExits
    \/ \E out \in ChildOutputs : ChildExits(out)
    \/ WaitReturns
    \/ Timeout
    \/ Cancel

SpecEngine == InitEngine /\ [][NextEngine]_vars

\* the user policies of the overlay scenario: the templates, and every
\* combination of the primitives over one import policy of each variant
OverlayImports ==
    {ImportsUnrestricted, ImportsBlacklist({<<"os">>}),
     ImportsWhitelist({<<"os">>, <<"json">>}),
     ImportsWhitelistWithBlacklist({<<"os">>, <<"json">>}, {<<"http">>})}

CustomPolicies ==
    {Policy("custom", n, f, pr, i, DefaultResources, e, a) :
        n \in NetworkPolicy, f \in FilesystemPolicy, pr \in ProcessPolicy,
        i \in OverlayImports, e \in ExecutionEnvironment, a \in BOOLEAN}

\* the overlays of the overlay scenario: a minimum level or none, and at
\* most one lock or requirement; and the two examples of the source
OneRequirement ==
    {DefaultOverlay}
    \cup {[DefaultOverlay EXCEPT !.locked_network = {n}] :
              n \in {"Unrestricted", "AllowList", "Blocked"}}
    \cup {[DefaultOverlay EXCEPT !.locked_filesystem = {f}] :
              f \in {"Unrestricted", "WorkspaceOnly"}}
    \cup {[DefaultOverlay EXCEPT !.locked_process = {pr}] :
              pr \in {"Unrestricted", "Blocked"}}
    \cup {[DefaultOverlay EXCEPT !.require_audit_logging = TRUE],
          [DefaultOverlay EXCEPT !.require_platform_sandbox = TRUE],
          [DefaultOverlay EXCEPT !.always_blocked_modules = {<<"os">>}],
          [DefaultOverlay EXCEPT !.max_allowed_resources =
              {ResourceLimitsPolicy(1024, 60, 30, 10 * 1024 * 1024, 8)}]}

Levels == 0..10

OverlayChoices ==
    {[o EXCEPT !.minimum_security_level = m] :
        o \in OneRequirement, m \in {{}} \cup {{l} : l \in Levels}}
    \cup {financial_services_example, healthcare_example}

InitOverlay ==
    /\ overlay \in OverlayChoices
    /\ user_policy \in Templates \cup CustomPolicies
    /\ ppc = "composed"
    /\ applied = NotApplied
    /\ reapplied = NotApplied
    /\ imported = NothingImported
    /\ IdleManager
    /\ IdleEngine
    /\ IdleTail

NextOverlay ==
    \/ ApplyOverlay
    \/ ApplyAgain

SpecOverlay == InitOverlay /\ [][NextOverlay]_vars

\* the import scenario: every import policy over a small universe of module
\* names, on top of two templates; overlays that block any non-empty part
\* of the universe, and the two examples of the source
ImportUniverse == {<<"os">>, <<"http">>, <<"http", "client">>}
BlockUniverse == ImportUniverse
ImportNames == ImportUniverse \cup {<<"builtins">>, <<"json">>, <<"os", "path">>}

ImportChoices ==
    {ImportsUnrestricted}
    \cup {ImportsBlacklist(bl) : bl \in SUBSET ImportUniverse}
    \cup {ImportsWhitelist(wl) : wl \in SUBSET ImportUniverse}
    \cup {ImportsWhitelistWithBlacklist(wl, bl) :
              wl \in SUBSET ImportUniverse, bl \in SUBSET ImportUniverse}

ImportOverlays ==
    {[DefaultOverlay EXCEPT !.always_blocked_modules = a,
                            !.minimum_security_level = m] :
        a \in SUBSET BlockUniverse, m \in {{}, {7}}}
    \cup {financial_services_example, healthcare_example}

InitImports ==
    /\ overlay \in ImportOverlays
    /\ user_policy \in
          Templates \cup {[t EXCEPT !.imports = i] :
                             t \in {balanced, enterprise}, i \in ImportChoices}
    /\ ppc = "composed"
    /\ applied = NotApplied
    /\ reapplied = NotApplied
    /\ imported = NothingImported
    /\ IdleManager
    /\ IdleEngine
    /\ IdleTail

NextImports ==
    \/ ApplyOverlay
    \/ \E name \in ImportNames, level \in {0, 1} : Import(name, level)

SpecImports == InitImports /\ [][NextImports]_vars

InitManager ==
    /\ \E n \in 1..MaxEngines : engines = NewSandbox(n)
    /\ calls = [c \in Callers |-> IdleCall]
    /\ IdleEngine
    /\ IdlePolicy
    /\ IdleTail

NextManager ==
    \/ \E c \in Callers, a \in CallArgs : Execute(c, a)
    \/ \E c \in Callers : AcquirePrimary(c)
    \/ \E c \in Callers, k \in {TRUE, FALSE}, v \in CallArgs \cup ErrKinds :
          PrimaryReturns(c, [ok |-> k, eng |-> primary_engine, val |-> v])
    \/ \E c \in Callers : AcquireFallback(c)
    \/ \E c \in Callers, k \in {TRUE, FALSE}, v \in CallArgs \cup ErrKinds :
          FallbackReturns(c, [ok |-> k, eng |-> calls[c].idx, val |-> v])
    \/ \E c \in Callers : Capabilities(c)
    \/ \E c \in Callers : CapabilitiesRead(c)

SpecManager == InitManager /\ [][NextManager]_vars

\* the manager's locking alone: one argument triple and one error kind, as
\* neither the guards nor the releases depend on them
LockArgs == {"args1"}
LockOutcomes == [ok : BOOLEAN, val : LockArgs \cup {"RuntimeError"}]

PrimaryReturnsAny(c) ==
    \E o \in LockOutcomes :
        PrimaryReturns(c, [ok |-> o.ok, eng |-> primary_engine, val |-> o.val])

FallbackReturnsAny(c) ==
    \E o \in LockOutcomes :
        FallbackReturns(c, [ok |-> o.ok, eng |-> calls[c].idx, val |-> o.val])

NextManagerLocks ==
    \/ \E c \in Callers, a \in LockArgs : Execute(c, a)
    \/ \E c \in Callers : AcquirePrimary(c)
    \/ \E c \in Callers : PrimaryReturnsAny(c)
    \/ \E c \in Callers : AcquireFallback(c)
    \/ \E c \in Callers : FallbackReturnsAny(c)
    \/ \E c \in Callers : Capabilities(c)
    \/ \E c \in Callers : CapabilitiesRead(c)

\* the scheduling: tokio's RwLock queues its waiters fairly and wakes them,
\* the runtime polls a woken future, and every engine's execute terminates
ManagerFairness ==
    \A c \in Callers :
        /\ WF_vars(AcquirePrimary(c))
        /\ WF_vars(PrimaryReturnsAny(c))
        /\ WF_vars(AcquireFallback(c))
        /\ WF_vars(FallbackReturnsAny(c))
        /\ WF_vars(CapabilitiesRead(c))

SpecManagerFair ==
    InitManager /\ [][NextManagerLocks]_vars /\ ManagerFairness

\* the runs of the generated program: each engine, the import policies of
\* the source and small ones of every variant, and one user statement
ProgramPolicies ==
    {EngineBlacklist(config_default_blacklist),
     to_import_policy(balanced.imports),
     EngineBlacklist({}),
     EngineBlacklist({<<"asyncio", "subprocess">>}),
     to_import_policy(data_science.imports),
     EngineWhitelist({<<"numpy">>}),
     EngineWhitelist({<<"builtins">>, <<"sys">>, <<"json">>, <<"re">>,
                      <<"io">>, <<"base64">>, <<"os">>, <<"socket">>}),
     EngineBoth(data_science_whitelist, config_default_blacklist)}
    \cup {SecurityProfile_to_import_policy(p) : p \in SecurityProfile}

ModeChars == {"r", "w", "a", "x", "b", "+"}
RECURSIVE Strings(_, _)
Strings(chars, n) ==
    IF n = 0 THEN {<<>>}
    ELSE Strings(chars, n - 1)
         \cup {<<c>> \o s : c \in chars,
                             s \in {t \in Strings(chars, n - 1) :
                                       Len(t) = n - 1}}
Modes == Strings(ModeChars, MaxModeLen)

UserImportNames ==
    default_blacklist \cup config_default_blacklist
    \cup {<<"json">>, <<"numpy">>, <<"asyncio">>, <<"os", "path">>}

ProgramAllowlists == {{}, {<<>>}, {<< <<"*", ".", "a">> >>}}

UserStatements ==
    {NoUserCode}
    \cup {UserImport(name, level) : name \in UserImportNames, level \in {0, 1}}
    \cup {UserOpen(mode) : mode \in Modes}
    \cup {UserConnect(h, via, t) :
              h \in {NoneHost, Host(<<"a">>), Host(<<"b", "a">>)},
              via \in NetworkEntryPoints, t \in BOOLEAN}

\* the state execute is in when it awaits the child it has spawned
Spawned ==
    /\ epc = "wait"
    /\ input_files = 0
    /\ workspace = IF engine = "sandboxed" THEN NewWorkspace ELSE NoWorkspace
    /\ child = SpawnChild(engine)
    /\ group = 0
    /\ eresult = NoResult

InitProgram ==
    /\ engine \in EngineKinds
    /\ Spawned
    /\ options \in {ExecutionOptions(ip, al) :
                        ip \in ProgramPolicies, al \in ProgramAllowlists}
    /\ user_code \in UserStatements
    /\ py = NewInterpreter
    /\ IdleManager
    /\ IdlePolicy
    /\ IdleExport
    /\ IdleBuilder
    /\ IdleLate

NestedImports == {<<>>, <<"os">>, <<"_io">>}

NextProgram ==
    \/ PyImport
    \/ PyInstallHook
    \/ PyRestrictOpen
    \/ PyNetworkSetup
    \/ \E found \in BOOLEAN, nested \in NestedImports :
          PyUserCode(found, nested)
    \/ PyPrintFrame
    \/ PyExit
    \/ WaitReturns

SpecProgram == InitProgram /\ [][NextProgram]_vars

\* the runs that exercise the network guards: every host string up to
\* MaxHostLen and None, through each entry point, against allowlists of
\* one or two patterns, under an import policy that admits socket
HostChars == {"a", "b", "A", ".", " "}
Hosts == {NoneHost} \cup {Host(h) : h \in Strings(HostChars, MaxHostLen)}

Patterns ==
    {<<"*">>, <<"*", ".", "a">>, <<"*", ".", "A", ".">>, <<"a">>,
     <<"A", ".">>, <<" ", "a", " ">>, <<"b", ".", "a">>, <<"*", ".">>,
     <<"*", "a">>, <<".", "a">>, <<>>, <<" ">>, <<"*", ".", "b", ".", "a">>,
     <<"b">>}

NetworkAllowlists ==
    {<<p>> : p \in Patterns}
    \cup {<<p, q>> : p \in {<<"b">>, <<>>}, q \in {<<"*", ".", "a">>, <<"a">>}}

NetworkCalls ==
    {UserConnect(h, via, TRUE) : h \in Hosts, via \in NetworkEntryPoints}
    \cup {UserConnect(NoneHost, via, FALSE) :
              via \in {"create_connection", "connect"}}

InitNetwork ==
    /\ engine \in EngineKinds
    /\ Spawned
    /\ options \in {ExecutionOptions(EngineBlacklist({}), {al}) :
                        al \in NetworkAllowlists}
    /\ user_code \in NetworkCalls
    /\ py = NewInterpreter
    /\ IdleManager
    /\ IdlePolicy
    /\ IdleExport
    /\ IdleBuilder
    /\ IdleLate

NextNetwork ==
    \/ PyImport
    \/ PyInstallHook
    \/ PyRestrictOpen
    \/ PyNetworkSetup
    \/ PyUserCode(TRUE, <<>>)
    \/ PyPrintFrame
    \/ PyExit
    \/ WaitReturns

SpecNetwork == InitNetwork /\ [][NextNetwork]_vars

\* the export scenario: output/ holds up to MaxSpecial entries of other
\* kinds, then up to MaxSmallFiles small regular files, then at most one
\* more entry of another kind
SpecialEntries ==
    {DirEntry(TRUE, TRUE, "symlink", TRUE, TRUE, TRUE, 1),
     DirEntry(TRUE, TRUE, "dir", TRUE, TRUE, FALSE, 1),
     RegularFile(100 * 1024 * 1024),
     RegularFile(MAX_TOTAL_BYTES + 1),
     DirEntry(TRUE, TRUE, "file", TRUE, FALSE, FALSE, 1),
     DirEntry(TRUE, TRUE, "file", TRUE, TRUE, FALSE, 1),
     DirEntry(TRUE, TRUE, "file", FALSE, TRUE, TRUE, 1),
     DirEntry(FALSE, FALSE, "file", TRUE, TRUE, TRUE, 1),
     DirEntry(TRUE, FALSE, "file", TRUE, TRUE, TRUE, 1)}

RECURSIVE SeqsUpTo(_, _)
SeqsUpTo(S, n) ==
    IF n = 0 THEN {<<>>}
    ELSE SeqsUpTo(S, n - 1)
         \cup {Append(s, x) : s \in {t \in SeqsUpTo(S, n - 1) : Len(t) = n - 1},
                              x \in S}

OutputDirs ==
    {pre \o [i \in 1..n |-> SmallFile] \o post :
        pre \in SeqsUpTo(SpecialEntries, MaxSpecial),
        n \in 0..MaxSmallFiles,
        post \in SeqsUpTo(SpecialEntries, 1)}

InitExport ==
    /\ engine = "sandboxed"
    /\ epc = "wait"
    /\ input_files = 0
    /\ workspace = NewWorkspace
    /\ child = [SpawnChild("sandboxed") EXCEPT
                  !.state = "exited", !.out = ExitOutput("ok", TRUE)]
    /\ group = 0
    /\ eresult = NoResult
    /\ \/ /\ outdir \in OutputDirs
          /\ export = NewExport("ok", TRUE, TRUE)
       \/ /\ outdir \in {<<>>, <<SmallFile>>}
          /\ export \in {NewExport(b, r, m) :
                           b \in {"none", "mkdir_fails", "ok"},
                           r \in BOOLEAN, m \in BOOLEAN}
    /\ IdleManager
    /\ IdlePolicy
    /\ IdleProgram
    /\ IdleBuilder
    /\ IdleLate

NextExport ==
    \/ ExportBegin
    \/ ExportEntry
    \/ ExportLoopEnds
    \/ ExportReturns

SpecExport == InitExport /\ [][NextExport]_vars

InitBuilder ==
    /\ builder = NewBuilder
    /\ IdleManager
    /\ IdleEngine
    /\ IdlePolicy
    /\ IdleProgram
    /\ IdleExport
    /\ IdleLate

NextBuilder ==
    \/ \E x \in BOOLEAN, n \in InputNames : BuilderWithInputFile(x, n)
    \/ \E n \in OutputNames, d \in Destinations : BuilderWithOutputFile(n, d)
    \/ \E p \in BOOLEAN : BuilderExecute(p)
    \/ \E s \in {"validate_err", "spawn_err", "spawned"} :
            BuilderEngineStarts(s)
    \/ \E n \in OutputNames : BuilderChildWrites(n)
    \/ \E ok \in BOOLEAN, k \in AfterSpawn : BuilderEngineReturns(ok, k)
    \/ \E ok \in BOOLEAN : BuilderCopyOutput(ok)
    \/ BuilderReturns

SpecBuilder == InitBuilder /\ [][NextBuilder]_vars

\* the outputs of the output scenario: stdout as up to MaxPieces of the
\* sentinels, the JSON texts and a line break; stderr as up to
\* MaxStderrWords words
StdoutPieces ==
    {OUTPUT_JSON_START, OUTPUT_JSON_END, JsonErrorNull,
     JsonErrorEmpty, JsonErrorSet, JsonWithMarker, JsonArray, <<"\n">>}

RECURSIVE Concats(_, _)
Concats(pieces, n) ==
    IF n = 0 THEN {<<>>}
    ELSE LET shorter == Concats(pieces, n - 1)
         IN shorter \cup {s \o p : s \in shorter, p \in pieces}

Stdouts == Concats(StdoutPieces, MaxPieces)
StderrWords == {"deny", "Sandbox", "MemoryError", "Traceback"}
Stderrs == SeqsUpTo(StderrWords, MaxStderrWords)

InitOutput ==
    /\ engine \in EngineKinds
    /\ epc = "wait"
    /\ input_files = 0
    /\ workspace = IF engine = "sandboxed" THEN NewWorkspace ELSE NoWorkspace
    /\ child = NoChild
    /\ group = 0
    /\ eresult = NoResult
    /\ output \in {NewOutput(so, se, ok) :
                      so \in Stdouts, se \in Stderrs, ok \in BOOLEAN}
    /\ envs = NoEnv
    /\ pm = NoManager
    /\ IdleManager
    /\ IdlePolicy
    /\ IdleProgram
    /\ IdleExport
    /\ IdleBuilder

NextOutput == OutputArm

SpecOutput == InitOutput /\ [][NextOutput]_vars

\* the aliases of the environment scenario: every string of up to
\* MaxAliasLen of these characters, and one of 65 characters
AliasChars == {"a", ".", "-", "/", " "}
Aliases ==
    Strings(AliasChars, MaxAliasLen) \cup {[i \in 1..(ALIAS_MAX_LEN + 1) |-> "a"]}

\* the directories before the call: the base's parent with another
\* directory in it, and possibly the base with env "a" and its files
EnvDirs ==
    LET outside == {<<>>, << <<"h">> >>, << <<"h">>, <<"d", "o", "c", "s">> >>}
        base == managed_envs_base_dir
    IN {outside, outside \cup {base},
        outside \cup {base, Append(base, <<"a">>),
                      Append(Append(base, <<"a">>), <<"b", "i", "n">>)}}

InitEnvs ==
    /\ envs \in {NewEnvCall(d) : d \in EnvDirs}
    /\ output = NoOutputParse
    /\ pm = NoManager
    /\ IdleManager
    /\ IdleEngine
    /\ IdlePolicy
    /\ IdleProgram
    /\ IdleExport
    /\ IdleBuilder

NextEnvs ==
    \/ \E raw \in Aliases, recreate \in BOOLEAN : EnvCreateBegin(raw, recreate)
    \/ \E ok \in BOOLEAN : EnvCreateVenv(ok)

SpecEnvs == InitEnvs /\ [][NextEnvs]_vars

\* ------------------------------------------------------------------------
\* The policy manager: callers add templates, select one, set or load the
\* overlay and ask for the effective policy, in any order
\* ------------------------------------------------------------------------
AddedNames == {"balanced"} \cup CustomNames
AddedPolicies == {yolo, enterprise}
SelectedNames == {"yolo", "balanced"} \cup CustomNames \cup {"paranoid"}
ManagerOverlays == {DefaultOverlay, financial_services_example}

InitPolicyManager ==
    /\ pm = NewManager
    /\ output = NoOutputParse
    /\ envs = NoEnv
    /\ IdleManager
    /\ IdleEngine
    /\ IdlePolicy
    /\ IdleProgram
    /\ IdleExport
    /\ IdleBuilder

NextPolicyManager ==
    \/ \E name \in AddedNames, policy \in AddedPolicies :
            AddTemplate(name, policy)
    \/ \E name \in SelectedNames : SelectPolicy(name)
    \/ \E policy \in ManagerOverlays : SetEnterprisePolicy(policy)
    \/ \E content \in {{}} \cup {{o} : o \in ManagerOverlays} :
            LoadEnterprisePolicy(content)
    \/ GetEffectivePolicy

SpecPolicyManager == InitPolicyManager /\ [][NextPolicyManager]_vars

\* ------------------------------------------------------------------------
\* Properties
\* ------------------------------------------------------------------------

\* the engine the i-th invocation of one execute call must go to: the
\* primary first, then the other engines in list order
ExpectedEngine(i) ==
    IF i = 1 THEN primary_engine
    ELSE LET others == EngineIds \ {primary_engine}
         IN CHOOSE j \in others :
                Cardinality({k \in others : k < j}) = i - 2

\* C1: within one PythonSandbox::execute call the primary is invoked first;
\* a further engine is invoked only after every engine before it failed, in
\* list order and with the caller's arguments; a success is returned as it
\* is and ends the call; the call fails only after every engine was tried.
C1_FallbackInOrder ==
    \A c \in Callers :
        calls[c].op = "execute" =>
            LET L == calls[c].log
            IN /\ Len(L) <= EnginesLen
               /\ \A i \in 1..Len(L) :
                     /\ L[i].eng = ExpectedEngine(i)
                     /\ L[i].args = calls[c].args
               /\ \A i \in 1..(Len(L) - 1) : L[i].out = "err"
               /\ (calls[c].pc = "done" /\ calls[c].result.ok) =>
                     /\ L[Len(L)].out = "ok"
                     /\ calls[c].result =
                           [ok |-> TRUE, eng |-> L[Len(L)].eng,
                            val |-> calls[c].args]
               /\ (calls[c].pc = "done" /\ ~calls[c].result.ok) =>
                     /\ Len(L) = EnginesLen
                     /\ L[Len(L)].out = "err"

\* a call that succeeded on the first fallback engine of three
C1_Witness ==
    \E c \in Callers :
        /\ calls[c].pc = "done"
        /\ calls[c].result.ok
        /\ Len(calls[c].log) = 2
        /\ EnginesLen = 3

\* C2: when every engine failed, the error returned is the one the primary
\* engine produced.
C2_PrimaryErrorReturned ==
    \A c \in Callers :
        (calls[c].op = "execute" /\ calls[c].pc = "done"
            /\ ~calls[c].result.ok) =>
                calls[c].result =
                    [ok |-> FALSE, eng |-> primary_engine,
                     val |-> calls[c].log[1].val]

\* every engine failed, the last one with another error than the primary
C2_Witness ==
    \E c \in Callers :
        LET L == calls[c].log
        IN /\ calls[c].pc = "done"
           /\ calls[c].op = "execute"
           /\ ~calls[c].result.ok
           /\ Len(L) >= 2
           /\ L[Len(L)].val # L[1].val

\* C3: at most one caller is inside an engine's execute, and it holds that
\* engine's write guard.
C3_OneExecutionPerEngine ==
    \A e \in EngineIds :
        /\ Cardinality(engines[e].running) <= 1
        /\ \A c \in engines[e].running : engines[e].writer = c

\* one caller executes on the primary while another waits for its lock
C3_Witness ==
    \E c1, c2 \in Callers :
        /\ c1 # c2
        /\ c1 \in engines[primary_engine].running
        /\ calls[c2].pc = "await_primary"

EngineCallEnded == epc \in {"returned", "dropped"}

\* C4: once a SandboxedPythonEngine::execute call that created a workspace
\* has ended, the workspace directory does not exist, and the workspace was
\* never marked as retained.
C4_WorkspaceRemoved ==
    /\ workspace.cleanup_on_drop
    /\ EngineCallEnded => workspace.dir # "exists"

\* C5: once execute has returned Timeout, no process of the child's group
\* is running.
C5_TimeoutKillsGroup ==
    (epc = "returned" /\ eresult = Err("Timeout")) =>
        (child.state # "running" /\ group = 0)

\* C6: no way execute ends, by return or by drop, leaves the spawned child
\* running.
C6_NoChildLeftRunning ==
    EngineCallEnded => child.state # "running"

\* C7: applying the overlay to the policy it returned succeeds and returns
\* the same policy.
C7_ApplyIdempotent ==
    ppc = "reapplied" =>
        (reapplied.ok /\ reapplied.policy = applied.policy)

\* C8: apply fails, returning no policy, exactly when a minimum level is
\* set and the level of the user policy as passed in is below it; yolo
\* fails under every minimum of at least 1.
C8_FailsExactlyBelowMinimum ==
    ppc \in {"applied", "reapplied", "imported"} =>
        /\ ~applied.ok <=>
              \E m \in overlay.minimum_security_level :
                  SecurityLevel(user_policy) < m
        /\ ~applied.ok => applied.policy = NoPolicy
        /\ (user_policy = yolo
               /\ \E m \in overlay.minimum_security_level : m >= 1) =>
              ~applied.ok

\* apply failed although the locks and requirements of the overlay would
\* have lifted the policy to the minimum
C8_Witness ==
    /\ ppc = "applied"
    /\ ~applied.ok
    /\ ~BelowMinimum(overlay, Tighten(overlay, user_policy))

\* C9: under the policy apply returned, the hook rejects the absolute
\* import of every module the overlay always blocks.
C9_AlwaysBlockedRejected ==
    (ppc = "imported" /\ imported.level = 0
        /\ imported.name \in overlay.always_blocked_modules) =>
            imported.outcome = "ImportError"

\* C10: the policy apply returned has a security level not below the user
\* policy's, and not below the overlay's minimum.
C10_NotLoosened ==
    (ppc \in {"applied", "reapplied"} /\ applied.ok) =>
        /\ SecurityLevel(applied.policy) >= SecurityLevel(user_policy)
        /\ \A m \in overlay.minimum_security_level :
              SecurityLevel(applied.policy) >= m

\* the two default blacklists, as the engines receive them
DefaultBlacklistPolicies ==
    {EngineBlacklist(config_default_blacklist),
     to_import_policy(ImportsBlacklist(default_blacklist))}

\* C11: under the default blacklist policy, user code that is the absolute
\* import of an entry b of that blacklist is rejected by the hook with an
\* ImportError naming the root module of b, and execute returns an error
\* whose text names that root module.
C11_DefaultBlacklistRejected ==
    (/\ epc = "returned"
     /\ options.import_policy \in DefaultBlacklistPolicies
     /\ user_code.op = "import"
     /\ user_code.level = 0
     /\ user_code.name \in options.import_policy.blacklist)
    => /\ py.user = "rejected"
       /\ py.exec_error = hook_error(user_code.name)
       /\ ~eresult.ok
       /\ ReportedError.name = RootModule(user_code.name)

\* C12: every import statement of the program itself runs while the hook is
\* not yet installed, and a program that has exited has printed its frame.
C12_OwnImportsBeforeHook ==
    /\ AtStmt("import") => ~py.hook
    /\ py.status \in {"exit0", "exit1"} => py.frame # "none"

\* C13: once the user code has called open, in either engine: under a
\* Blacklist policy the call raised PermissionError when its mode holds
\* 'w', 'a' or 'x' and was delegated to the original open otherwise; under
\* a Whitelist or combined policy it was delegated whatever the mode.
C13_OpenReadOnlyUnderBlacklist ==
    (py.user # "none" /\ user_code.op = "open")
    => IF options.import_policy.kind = "Blacklist"
       THEN py.user = IF \E i \in 1..Len(user_code.mode) :
                             user_code.mode[i] \in {"w", "a", "x"}
                      THEN "rejected" ELSE "delegated"
       ELSE py.user = "delegated"

\* the user code has called a guarded network entry point
GuardedCallMade ==
    /\ user_code.op = "connect"
    /\ py.user # "none"
    /\ py.guards

\* the host the guard of the entry point called hands to the matcher
GuardedHost ==
    IF user_code.via = "getaddrinfo" \/ user_code.is_tuple
    THEN rzn_norm_host(user_code.host) ELSE <<>>

\* some pattern of the allowlist, normalised, is '*', or is '*.base' with
\* h = base or h ending in '.base', or equals h
SomePatternMatches(list, h) ==
    \E i \in 1..Len(list) :
        LET p == RStrip(Lower(Strip(list[i])), {"."})
        IN \/ p = <<"*">>
           \/ /\ Len(p) >= 2 /\ p[1] = "*" /\ p[2] = "."
              /\ LET base == SubSeq(p, 3, Len(p))
                 IN \/ h = base
                    \/ /\ Len(h) > Len(base)
                       /\ SubSeq(h, Len(h) - Len(base), Len(h))
                             = <<".">> \o base
           \/ p = h

NetworkAllowlist == CHOOSE l \in options.network_allowlist : TRUE

\* C14 (as claimed): a guarded call is let through exactly when some
\* pattern matches the normalised host, and is otherwise refused with a
\* PermissionError.
C14_AdmittedExactlyByPattern ==
    GuardedCallMade
    => /\ py.user = "delegated"
          <=> SomePatternMatches(NetworkAllowlist, GuardedHost)
       /\ py.user = "rejected" => py.exec_error.exc = "PermissionError"

\* C14 (amended): a guarded call is let through exactly when the
\* normalised host is empty or some pattern matches it, and is otherwise
\* refused with a PermissionError.
C14_AdmittedByPatternOrEmpty ==
    GuardedCallMade
    => /\ py.user = "delegated"
          <=> \/ GuardedHost = <<>>
              \/ SomePatternMatches(NetworkAllowlist, GuardedHost)
       /\ py.user = "rejected" => py.exec_error.exc = "PermissionError"

\* '*.a' has refused the host 'ba'
C14_Witness ==
    /\ GuardedCallMade
    /\ NetworkAllowlist = << <<"*", ".", "a">> >>
    /\ user_code.host = Host(<<"b", "a">>)
    /\ py.user = "rejected"

RECURSIVE ExportedBytes(_)
ExportedBytes(files) ==
    IF files = <<>> THEN 0
    ELSE Head(files).size_bytes + ExportedBytes(Tail(files))

LevelsComputed ==
    {user_policy} \cup (IF applied.ok THEN {applied.policy} ELSE {})

\* C16: for every policy, each of the five subscores of security_level is
\* 0, 1 or 2, the level is their sum without u8 overflow, and it lies
\* in [0,10].
C16_SecurityLevelRange ==
    \A p \in LevelsComputed :
        /\ \A sc \in {NetworkScore(p), FilesystemScore(p), ProcessScore(p),
                       ImportsScore(p), EnvironmentScore(p)} : sc \in 0..2
        /\ SecurityLevel(p)
             = NetworkScore(p) + FilesystemScore(p) + ProcessScore(p)
               + ImportsScore(p) + EnvironmentScore(p)
        /\ SecurityLevel(p) \in 0..10

\* apply has compared the level of a policy of the highest level, 10, with
\* a minimum
C16_Witness ==
    /\ ppc = "applied"
    /\ overlay.minimum_security_level # {}
    /\ user_policy.network = "Blocked"
    /\ user_policy.filesystem = "None"
    /\ user_policy.process = "Blocked"
    /\ user_policy.imports.type = "WhitelistWithBlacklist"
    /\ user_policy.environment = "PlatformSandboxed"
    /\ applied.ok

\* C17: the yolo template has security level 0, the balanced template 7
\* and the enterprise template at least 8.
C17_TemplateLevels ==
    /\ user_policy = yolo => SecurityLevel(user_policy) = 0
    /\ user_policy = balanced => SecurityLevel(user_policy) = 7
    /\ user_policy = enterprise => SecurityLevel(user_policy) >= 8

\* apply has admitted the balanced template under a minimum of 7
C17_Witness ==
    /\ ppc = "applied"
    /\ user_policy = balanced
    /\ overlay.minimum_security_level = {7}
    /\ applied.ok

\* C18: while one call executes on a fallback engine after its primary
\* attempt failed and no call is inside the primary's execute, a call
\* waiting on primary.write() is able to acquire the primary.
C18_PrimaryFreeDuringFallback ==
    \A c \in Callers, d \in Callers :
        (/\ c # d
         /\ calls[c].pc = "in_fallback"
         /\ calls[d].pc = "await_primary"
         /\ engines[primary_engine].running = {})
            => ENABLED AcquirePrimary(d)

\* C19: after SandboxedExecutionBuilder::execute returns Ok, output_files
\* lists the files the program wrote into its OUTPUT_DIR, and every
\* registered (name, destination) whose name the program wrote has been
\* copied to its destination.
C19_BuilderReadsChildOutputs ==
    (builder.pc = "returned" /\ builder.result.ok) =>
        /\ builder.result.output_files = builder.written
        /\ \A i \in DOMAIN builder.output_files :
              builder.output_files[i].name \in builder.written
                  => builder.output_files[i] \in builder.copied

\* C20: when apply succeeds with max_allowed_resources set, each of the
\* five resource limits of the result is the minimum of the user's value
\* and the overlay's value; with max_allowed_resources unset the user's
\* limits are returned unchanged.
ResourceFields ==
    {"max_memory_mb", "max_cpu_seconds", "max_timeout_seconds",
     "max_output_bytes", "max_threads"}

C20_ResourcesClamped ==
    (ppc = "applied" /\ applied.ok) =>
        /\ overlay.max_allowed_resources = {}
              => applied.policy.resources = user_policy.resources
        /\ \A r \in overlay.max_allowed_resources, f \in ResourceFields :
              LET v == applied.policy.resources[f]
              IN /\ v <= user_policy.resources[f]
                 /\ v <= r[f]
                 /\ v \in {user_policy.resources[f], r[f]}

\* apply has clamped a policy of which one limit is above the overlay's
\* and another below it
C20_Witness ==
    /\ ppc = "applied"
    /\ applied.ok
    /\ \E r \in overlay.max_allowed_resources :
          /\ user_policy.resources.max_memory_mb > r.max_memory_mb
          /\ user_policy.resources.max_threads < r.max_threads
          /\ applied.policy.resources.max_memory_mb = r.max_memory_mb
          /\ applied.policy.resources.max_threads
                = user_policy.resources.max_threads

\* C21: in the native engine, under the import policy of a profile whose
\* restrict_file_writes() is false (YOLO), a call of open by the user code
\* reaches the original open whatever its mode.
C21_YoloOpenUnrestricted ==
    \A profile \in SecurityProfile :
        (/\ ~restrict_file_writes(profile)
         /\ engine = "native"
         /\ options.import_policy = SecurityProfile_to_import_policy(profile)
         /\ user_code.op = "open"
         /\ py.user # "none")
            => py.user = "delegated"

\* the frames a stdout holds: the JSON values decoded from between an
\* OUTPUT_JSON_START and an OUTPUT_JSON_END that follows it
ParseableFrames(stdout) ==
    UNION {from_str(trim(SubSeq(stdout, i + Len(OUTPUT_JSON_START) + 1, j))) :
             <<i, j>> \in {ij \in (0..Len(stdout)) \X (0..Len(stdout)) :
                             /\ MatchesAt(stdout, OUTPUT_JSON_START, ij[1])
                             /\ MatchesAt(stdout, OUTPUT_JSON_END, ij[2])
                             /\ ij[1] + Len(OUTPUT_JSON_START) <= ij[2]}}

\* the error member of a frame is null (or absent) or the empty string
ErrorNullOrEmpty(v) == v.error \in {"null", "absent"} \/ v.error_str = <<>>

\* C22: when the child of the native engine has exited: a parseable frame
\* with a non-empty error string gives RuntimeError(error), one with a null
\* or empty error gives Ok(frame); no parseable frame and a nonzero exit
\* status gives MemoryLimitExceeded when stderr contains 'MemoryError' and
\* RuntimeError(stderr) otherwise.
C22_NativeExitClassification ==
    (engine = "native" /\ output.pc = "returned") =>
        LET frames == {v \in ParseableFrames(output.stdout) :
                          v.type = "object"}
        IN /\ \A v \in frames :
                output.outcome =
                    IF ErrorNullOrEmpty(v) THEN OkValue(v)
                    ELSE ErrOf("RuntimeError", v.error_str)
           /\ (ParseableFrames(output.stdout) = {} /\ ~output.success) =>
                output.outcome =
                    IF \E i \in DOMAIN output.stderr :
                          output.stderr[i] = "MemoryError"
                    THEN ErrOf("MemoryLimitExceeded", <<>>)
                    ELSE ErrOf("RuntimeError", output.stderr)

\* C23: when the child of the sandboxed engine has exited with 'deny' or
\* 'Sandbox' in its stderr, the call returns SecurityViolation whatever
\* the exit status and the frame, and maybe_export_outputs is not called.
C23_DenyIsSecurityViolation ==
    (/\ engine = "sandboxed"
     /\ output.pc = "returned"
     /\ \E i \in DOMAIN output.stderr :
           output.stderr[i] \in {"deny", "Sandbox"})
        => /\ output.outcome = ErrOf("SecurityViolation", <<>>)
           /\ ~output.export_called

\* the sandboxed engine has returned SecurityViolation for a child that
\* exited with status 0, a frame without error and 'Sandbox' on stderr
C23_Witness ==
    /\ engine = "sandboxed"
    /\ output.pc = "returned"
    /\ output.success
    /\ output.stderr = <<"Sandbox">>
    /\ \E v \in ParseableFrames(output.stdout) : ErrorNullOrEmpty(v)
    /\ output.outcome = ErrOf("SecurityViolation", <<>>)

\* C27: whenever either engine returns Ok(v), v is the JSON object decoded
\* from between the sentinels of the child's stdout and its error member
\* is null or empty.
C27_OkIsDecodedFrame ==
    (output.pc = "returned" /\ output.outcome.tag = "Ok") =>
        /\ output.outcome.val \in ParseableFrames(output.stdout)
        /\ output.outcome.val.type = "object"
        /\ ErrorNullOrEmpty(output.outcome.val)

\* C28: for every stdout of the child, execute returns an Ok or an Err
\* value; it does not panic on the slice between the sentinels.
C28_ParsingIsTotal ==
    output.pc = "returned" => output.outcome.tag \in {"Ok", "Err"}

\* the engine invocations of a call in which the child running the user
\* code was spawned: those that returned Ok or an error raised after the
\* spawn, and the one still running
RanUserCode(c) ==
    {i \in DOMAIN calls[c].log :
        \/ calls[c].log[i].out \in {"ok", "pending"}
        \/ calls[c].log[i].out = "err" /\ calls[c].log[i].val \in AfterSpawn}

\* C24: within one PythonSandbox::execute call the user program is run at
\* most once: after an engine has spawned the child, no other engine is
\* asked to run the same code.
C24_UserCodeRunsOnce ==
    \A c \in Callers :
        calls[c].op = "execute" => Cardinality(RanUserCode(c)) <= 1

\* C25: lock acquisition in the manager cannot deadlock: when every
\* engine's execute terminates, every execute and capabilities call on the
\* manager eventually returns.
C25_EveryCallReturns ==
    \A c \in Callers : (calls[c].pc # "idle") ~> (calls[c].pc = "done")

\* a call waits for the primary while another call, holding the primary,
\* waits for a fallback engine or runs on it
C25_Witness ==
    \E c \in Callers, d \in Callers :
        /\ calls[c].pc \in {"await_fallback", "in_fallback"}
        /\ calls[d].pc \in {"await_primary", "await_read"}
        /\ engines[primary_engine].writer = c

\* C26: for every alias validate_env_alias accepts, managed_env_dir(alias)
\* is a proper descendant of the managed-envs base directory, and a
\* python_env.create call removes only directories strictly inside the base.
C26_EnvDirInsideBase ==
    (envs.pc \in {"venv", "returned"} /\ envs.alias # {}) =>
        LET env_dir == Resolve(managed_env_dir(CHOOSE a \in envs.alias : TRUE))
            base == Resolve(managed_envs_base_dir)
        IN /\ IsWithin(env_dir, base) /\ env_dir # base
           /\ \A p \in envs.removed : IsWithin(p, base) /\ p # base

\* C29: for every policy and every absolute module name (level 0),
\* ImportPolicy::is_allowed returns true exactly when the generated
\* safe_import delegates to the original import instead of raising
\* ImportError.
C29_IsAllowedAgreesWithHook ==
    (ppc = "imported" /\ imported.level = 0) =>
        (is_allowed(to_import_policy(applied.policy.imports), imported.name)
            <=> imported.outcome = "delegated")

\* C30: after any sequence of PolicyManager operations selected_policy
\* names a registered template; get_effective_policy does not use its
\* balanced fallback and returns the overlay applied to the selected
\* template, or the template itself when there is no overlay; a
\* select_policy with a name that is not registered returns an error and
\* leaves the selection, the templates and the overlay unchanged.
C30_SelectionIsRegistered ==
    /\ pm.mgr.selected_policy \in DOMAIN pm.mgr.templates
    /\ pm.last.op = "get_effective_policy" =>
          LET template == pm.mgr.templates[pm.mgr.selected_policy]
          IN /\ ~pm.effective.fallback
             /\ pm.effective.result =
                   IF pm.mgr.enterprise_policy = {}
                   THEN [ok |-> TRUE, policy |-> template]
                   ELSE Apply(CHOOSE o \in pm.mgr.enterprise_policy : TRUE,
                              template)
    /\ (pm.last.op = "select_policy"
        /\ pm.last.name \notin DOMAIN pm.before.templates) =>
          ~pm.last.ok /\ pm.mgr = pm.before

\* a select_policy with an unregistered name has just failed on a manager
\* whose selection is a custom template replaced after it was selected, with
\* an overlay set and an effective policy already produced under it
C30_Witness ==
    /\ pm.last.op = "select_policy"
    /\ ~pm.last.ok
    /\ pm.last.name = "paranoid"
    /\ pm.mgr.selected_policy \in CustomNames
    /\ pm.mgr.enterprise_policy # {}
    /\ pm.effective.result.ok
    /\ pm.effective.result.policy.name = "Enterprise"

====
